---------------------------- MODULE Spec2Model ----------------------------
(***************************************************************************)
(* Model of the content scraper's scrape pipeline:                         *)
(*   POST /api/scrape          src/src/app/api/scrape/route.ts             *)
(*   Firecrawl SDK client      src/unnamed/part_005, lines 277-683         *)
(*   Firecrawl HTTP client     src/unnamed/part_005, lines 1-275           *)
(*   Puppeteer client          src/unnamed/part_004, lines 107-458         *)
(*   isValidUrl, urlSchema     src/unnamed/part_002, src/src/types/index.ts*)
(*   saveScrapedData           src/src/lib/supabase/client.ts              *)
(*                                                                         *)
(* JavaScript strings whose characters the code inspects (the request url, *)
(* titles, heading and link texts) are sequences of one-character strings. *)
(* hrefs and error messages are only compared, or searched for a fixed     *)
(* substring, and are TLA+ strings; substring search over them is a table. *)
(***************************************************************************)
EXTENDS Integers, Sequences, FiniteSets, TLC

(***************************************************************************)
(* Bounds of the model.                                                    *)
(***************************************************************************)
\* longest link list a fetched page carries in the request pipeline
MaxLinks == 2
\* longest href list handed to checkBrokenLinks when it is run on its own
MaxProbeLinks == 11
\* longest heading list of a Document given to issue analysis on its own
MaxHeadings == 3
\* most heading and anchor elements of a page source given to the extractor
MaxElements == 3
\* longest heading list of a Document given to content analysis
MaxContentHeadings == 2
\* most tokens of a text given to the text measures
MaxWords == 3
\* most requests to the endpoints of the store
MaxRequests == 3
\* most records of the history list
MaxItems == 2
\* concurrent calls of the Puppeteer client, and calls in all
MaxRuns == 2
MaxCalls == 3
\* ids a delete request can name: 1..MaxSaves
MaxSaves == 2

(***************************************************************************)
(* Program constants.                                                      *)
(***************************************************************************)
\* part_005:523  const batchSize = 10
FirecrawlBatchSize == 10
\* part_004:284  const concurrencyLimit = 5
PuppeteerConcurrencyLimit == 5
\* part_004:299  response.status() >= 400
BrokenStatusFrom == 400
\* Response.ok of the fetch API: status in 200..299 (part_005:532)
OkStatusFrom == 200
OkStatusTo == 299

Clients == {"firecrawl", "puppeteer", "firecrawlApi"}

(***************************************************************************)
(* Strings as character sequences.                                         *)
(***************************************************************************)
Letters == {"a", "b", "c", "d", "e", "f", "h", "i", "k", "l", "m", "n", "o",
            "p", "r", "s", "t", "w", "x"}
Digits == {"0", "1", "2"}
Whitespace == {" "}

\* a string of n letters
Chars(n) == [k \in 1..n |-> "x"]

RECURSIVE TrimStart(_)
TrimStart(s) ==
    IF s # <<>> /\ Head(s) \in Whitespace THEN TrimStart(Tail(s)) ELSE s

RECURSIVE TrimEnd(_)
TrimEnd(s) ==
    IF s # <<>> /\ s[Len(s)] \in Whitespace
    THEN TrimEnd(SubSeq(s, 1, Len(s) - 1))
    ELSE s

\* String.prototype.trim
Trim(s) == TrimEnd(TrimStart(s))

\* index of the first occurrence of character c in s, 0 when there is none
IndexOf(s, c) ==
    IF \E k \in 1..Len(s) : s[k] = c
    THEN CHOOSE k \in 1..Len(s) : s[k] = c /\ \A j \in 1..(k - 1) : s[j] # c
    ELSE 0

(***************************************************************************)
(* new URL(url): the failures of the WHATWG URL parser without a base URL. *)
(* A scheme is a letter followed by letters, digits, "+", "-", "." up to   *)
(* the first ":".  No scheme: failure.  A special scheme other than file   *)
(* needs a non-empty host after any number of slashes; every other scheme  *)
(* parses with whatever follows the colon.                                 *)
(***************************************************************************)
SchemeChars == Letters \cup Digits \cup {"+", "-", "."}

HasScheme(u) ==
    LET c == IndexOf(u, ":")
    IN  /\ c > 1
        /\ u[1] \in Letters
        /\ \A k \in 2..(c - 1) : u[k] \in SchemeChars

Scheme(u) == SubSeq(u, 1, IndexOf(u, ":") - 1)

AfterScheme(u) == SubSeq(u, IndexOf(u, ":") + 1, Len(u))

RECURSIVE SkipSlashes(_)
SkipSlashes(s) ==
    IF s # <<>> /\ Head(s) \in {"/", "\\"} THEN SkipSlashes(Tail(s)) ELSE s

\* the host: up to the first "/", "?" or "#"
RECURSIVE HostOf(_)
HostOf(s) ==
    IF s = <<>> \/ Head(s) \in {"/", "\\", "?", "#"}
    THEN <<>>
    ELSE <<Head(s)>> \o HostOf(Tail(s))

SchemeHttp == <<"h", "t", "t", "p">>
SchemeHttps == <<"h", "t", "t", "p", "s">>
SchemeFile == <<"f", "i", "l", "e">>
SpecialSchemes ==
    {SchemeHttp, SchemeHttps, SchemeFile, <<"f", "t", "p">>, <<"w", "s">>,
     <<"w", "s", "s">>}

UrlParses(u) ==
    /\ HasScheme(u)
    /\ (Scheme(u) \in SpecialSchemes \ {SchemeFile}) =>
          LET host == HostOf(SkipSlashes(AfterScheme(u)))
          IN  host # <<>> /\ \A k \in 1..Len(host) : host[k] \notin Whitespace

\* src/unnamed/part_002:14-21
isValidUrl(u) == UrlParses(u)

\* src/src/types/index.ts:4-6  z.string().url(): the string parses as a URL
urlSchema(u) == UrlParses(u)

\* the request urls tried
UrlHttp == <<"h", "t", "t", "p", ":", "/", "/", "a", ".", "c">>
UrlMailto == <<"m", "a", "i", "l", "t", "o", ":", "a">>
UrlNoScheme == <<"a", ".", "c", "/", "p">>
UrlRelative == <<"/", "p">>
UrlNoHost == <<"h", "t", "t", "p", ":", "/", "/">>
UrlEmpty == <<>>
RequestUrls ==
    {UrlHttp, UrlMailto, UrlNoScheme, UrlRelative, UrlNoHost, UrlEmpty}


(***************************************************************************)
(* Values.                                                                 *)
(***************************************************************************)
\* null of a nullable string field (screenshot, id)
NULL == "NULL"

\* a title: null, or a string
NullTitle == [null |-> TRUE, text |-> <<>>]
Title(t) == [null |-> FALSE, text |-> t]
\* JavaScript truthiness of a title: neither null nor ""
Truthy(title) == ~title.null /\ title.text # <<>>

TagNames == <<"h1", "h2", "h3", "h4", "h5", "h6">>
Heading(level, text) ==
    [tag |-> TagNames[level], text |-> text, level |-> level]

SeqsUpTo(S, n) == UNION {[1..k -> S] : k \in 0..n}

HrefA == "https://example.com/a"
HrefB == "https://example.com/b"
Hrefs == {HrefA, HrefB}

TextA == <<"a">>
TextHere == <<"h", "e", "r", "e">>

\* what a fetched page can link to; a page may link to the same href twice
LinkPool ==
    {[href |-> HrefA, text |-> TextA], [href |-> HrefB, text |-> TextHere]}

Screenshot == "data:image/png;base64"

\* title, headings and screenshot of the pages fetched
PageShapes ==
    {[title |-> NullTitle, headings |-> <<>>, screenshot |-> NULL],
     [title |-> Title(Chars(14)), headings |-> <<Heading(1, TextA)>>,
      screenshot |-> Screenshot]}

\* what a successful fetch can extract
Pages ==
    {[title |-> s.title, headings |-> s.headings, links |-> l,
      screenshot |-> s.screenshot] : s \in PageShapes,
                                     l \in SeqsUpTo(LinkPool, MaxLinks)}

\* ScrapedData / FirecrawlResponse; error = "" when the field is absent
Doc(url, title, headings, links, screenshot, error) ==
    [url |-> url, title |-> title, headings |-> headings, links |-> links,
     screenshot |-> screenshot, error |-> error]

NoDoc == Doc(<<>>, NullTitle, <<>>, <<>>, NULL, "")

(***************************************************************************)
(* Error messages, and message.includes(needle) as a table.                *)
(***************************************************************************)
MsgInvalidUrl == "Invalid URL format"
MsgNoKey == "FIRECRAWL_API_KEY environment variable is not set"
MsgRaceTimeout == "Request timeout - Vercel function limit reached"
MsgUnexpectedToken == "Unexpected token < in JSON at position 0"
MsgNetwork == "getaddrinfo ENOTFOUND api.firecrawl.dev"
MsgRateLimit == "Request failed with status code 429: rate limit exceeded"
MsgHtmlPage ==
    "Received HTML error page from Firecrawl API - check API key and rate limits"
MsgUnexpectedFormat == "Unexpected response format from Firecrawl"
MsgUpstream == "Upstream scrape failed"
MsgDefault == "Failed to scrape website"
MsgNavTimeout == "Navigation timeout of 30000 ms exceeded"
MsgPageClosed == "Protocol error: Connection closed."
MsgLaunch == "Failed to launch the browser process"
MsgAxiosTimeout == "timeout of 30000ms exceeded"
MsgAxiosStatus == "Request failed with status code 500"
MsgApiStatus == "API returned status code 204"
MsgNoHeadings == "Cannot read properties of undefined (reading 'map')"
MsgNotIterable == "Cannot read properties of undefined (reading 'reduce')"

IncludesTable ==
    {<<MsgUnexpectedToken, "Unexpected token">>,
     <<MsgHtmlPage, "API key">>, <<MsgHtmlPage, "rate limit">>,
     <<MsgRaceTimeout, "timeout">>, <<MsgNavTimeout, "timeout">>,
     <<MsgAxiosTimeout, "timeout">>,
     <<MsgRateLimit, "rate limit">>}

Includes(msg, needle) == <<msg, needle>> \in IncludesTable

\* the messages that report a timeout
TimeoutMessages == {MsgRaceTimeout, MsgNavTimeout, MsgAxiosTimeout}

\* error.message || fallback
OrElse(msg, fallback) == IF msg = "" THEN fallback ELSE msg

(***************************************************************************)
(* Link probes: what one fetch(url, HEAD) or page.goto(url) can come to.   *)
(***************************************************************************)
Response(status) == [kind |-> "response", status |-> status, why |-> ""]
Throws(why) == [kind |-> "throw", status |-> 0, why |-> why]
NullResponse == [kind |-> "null", status |-> 0, why |-> ""]

ProbeStatuses == {200, 304, 404}
ProbeFailures == {"timeout", "network"}

\* part_005:528-531  fetch(url, {method: 'HEAD'})
FetchOutcomes ==
    {Response(s) : s \in ProbeStatuses} \cup {Throws(w) : w \in ProbeFailures}
\* part_004:296-298  page.goto(url): a response, null, or a rejection
GotoOutcomes == FetchOutcomes \cup {NullResponse}

\* part_005:526-535
FirecrawlProbe(o) ==
    IF o.kind = "throw"
    THEN TRUE
    ELSE ~(o.status >= OkStatusFrom /\ o.status <= OkStatusTo)

\* part_004:294-303
PuppeteerProbe(o) ==
    IF o.kind = "throw"
    THEN TRUE
    ELSE o.kind = "null" \/ o.status >= BrokenStatusFrom


(***************************************************************************)
(* Issue analysis.  An issue is its type, its severity and the number its  *)
(* description states (0: the description states none).                    *)
(***************************************************************************)
Issue(type, severity, n) == [type |-> type, severity |-> severity, n |-> n]

\* one issue pushed twice when the rule matches
WhenTwice(cond, issue) == IF cond THEN <<issue, issue>> ELSE <<>>

\* the issue when the rule matches, nothing otherwise
When(cond, issue) == IF cond THEN <<issue>> ELSE <<>>

\* seq.filter(pred).length
Count(seq, pred(_)) == Cardinality({k \in 1..Len(seq) : pred(seq[k])})

IsH1(h) == h.level = 1
IsEmptyHeading(h) == Trim(h.text) = <<>>
IsEmptyLink(l) == l.text = <<>> \/ Trim(l.text) = <<>>
IsBrokenLink(l) == l.isBroken

\* /^(click here|here|read more|more|link)$/i on the trimmed text
NonDescriptiveTexts ==
    {<<"c", "l", "i", "c", "k", " ", "h", "e", "r", "e">>,
     <<"h", "e", "r", "e">>,
     <<"r", "e", "a", "d", " ", "m", "o", "r", "e">>,
     <<"m", "o", "r", "e">>,
     <<"l", "i", "n", "k">>}
IsNonDescriptive(l) == Trim(l.text) \in NonDescriptiveTexts

\* a jump of more than one level in either direction
SkipsLevelEitherWay(headings) ==
    \E k \in 2..Len(headings) :
        \/ headings[k].level > headings[k - 1].level + 1
        \/ headings[k - 1].level > headings[k].level + 1

\* part_005:618-630: some heading is more than one level below the one before
SkipsLevel(headings) ==
    \E k \in 2..Len(headings) :
        headings[k].level > headings[k - 1].level + 1

\* part_005:550-674  analyzeWebsiteIssues of the Firecrawl SDK client
FirecrawlAnalyze(d) ==
    LET h1Count == Count(d.headings, IsH1)
        emptyHeadings == Count(d.headings, IsEmptyHeading)
        emptyLinks == Count(d.links, IsEmptyLink)
        nonDescriptive == Count(d.links, IsNonDescriptive)
    IN  When(~Truthy(d.title) \/ Trim(d.title.text) = <<>>,
             Issue("Missing Title", "high", 0))
        \o When(Truthy(d.title) /\ Len(d.title.text) < 10,
                Issue("Short Title", "medium", 0))
        \o When(Truthy(d.title) /\ Len(d.title.text) > 60,
                Issue("Long Title", "medium", 0))
        \o When(h1Count = 0, Issue("Missing H1", "high", 0))
        \o When(h1Count > 1, Issue("Multiple H1s", "medium", 0))
        \o When(SkipsLevel(d.headings),
                Issue("Heading Hierarchy", "medium", 0))
        \o When(emptyHeadings > 0,
                Issue("Empty Headings", "medium", emptyHeadings))
        \o When(emptyLinks > 0, Issue("Empty Links", "medium", emptyLinks))
        \o When(nonDescriptive > 0,
                Issue("Non-descriptive Links", "low", nonDescriptive))

\* part_004:330-441  analyzeWebsiteIssues of the Puppeteer client
PuppeteerAnalyze(d) ==
    LET h1Count == Count(d.headings, IsH1)
        brokenLinks == Count(d.links, IsBrokenLink)
        emptyLinks == Count(d.links, IsEmptyLink)
    IN  When(~Truthy(d.title) \/ Trim(d.title.text) = <<>>,
             Issue("Missing Title", "high", 0))
        \o When(Truthy(d.title) /\ Len(d.title.text) < 10,
                Issue("Short Title", "medium", 0))
        \o When(Len(d.headings) = 0, Issue("No Headings", "medium", 0))
        \o When(h1Count = 0, Issue("Missing H1", "medium", 0))
        \o When(h1Count > 1, Issue("Multiple H1 Headings", "low", h1Count))
        \o When(brokenLinks > 0, Issue("Broken Links", "high", brokenLinks))
        \o When(emptyLinks > 0,
                Issue("Empty Link Text", "medium", emptyLinks))

\* part_005:192-214  the issues returned in mock mode
MockIssues ==
    <<Issue("Missing Meta Description", "medium", 0),
      Issue("Broken Link", "high", 0),
      Issue("Accessibility Issue", "medium", 0)>>

\* part_005:265-273  the issue returned when the analyze call fails
AnalyzeErrorIssue == <<Issue("error", "high", 0)>>


(***************************************************************************)
(* The Firecrawl HTTP client's mock mode and remote replies.               *)
(***************************************************************************)
\* part_005:9  USE_MOCK_DATA
UseMockData(e) == ~e.apiKey \/ e.dev

HrefMock == "https://example.com"
HrefMockAbout == "https://example.com/about"
HrefMockContact == "https://example.com/contact"
HrefMockBroken == "https://example.com/broken"
HrefMockProducts == "https://example.com/products"

\* url.includes('broken') over the hrefs of the model
IncludesBroken(href) == href = HrefMockBroken

\* part_005:37-58  getMockData
getMockData(url) ==
    Doc(url,
        Title(<<"M", "o", "c", "k", " ", "W", "e", "b", "s", "i", "t", "e",
                " ", "T", "i", "t", "l", "e">>),
        <<Heading(1, <<"M", "a", "i", "n">>), Heading(2, <<"S", "u", "b", "1">>),
          Heading(2, <<"S", "u", "b", "2">>), Heading(3, <<"S", "e", "c", "1">>),
          Heading(3, <<"S", "e", "c", "2">>)>>,
        <<[href |-> HrefMock, text |-> <<"E", "x", "a", "m", "p", "l", "e">>],
          [href |-> HrefMockAbout, text |-> <<"A", "b", "o", "u", "t">>],
          [href |-> HrefMockContact, text |-> <<"C", "o", "n", "t", "a", "c", "t">>],
          [href |-> HrefMockBroken, text |-> <<"B", "r", "o", "k", "e", "n">>],
          [href |-> HrefMockProducts,
           text |-> <<"P", "r", "o", "d", "u", "c", "t", "s">>]>>,
        Screenshot, "")

\* parseInt(heading.tag.replace('h', ''), 10) || 0   (part_005:101)
LevelOfTag(tag) ==
    IF \E k \in 1..Len(TagNames) : TagNames[k] = tag
    THEN CHOOSE k \in 1..Len(TagNames) : TagNames[k] = tag
    ELSE 0

Outcome(url, isBroken) == [url |-> url, isBroken |-> isBroken]

\* links.map((url) => ({ url, isBroken: true })): failing closed
AllBroken(links) == [k \in 1..Len(links) |-> Outcome(links[k], TRUE)]

\* links.map((url) => ({ url, isBroken: false }))
AllNotBroken(links) == [k \in 1..Len(links) |-> Outcome(links[k], FALSE)]

\* part_005:138-142  the mock outcomes; lucky: the links Math.random() hits
MockOutcomes(links, lucky) ==
    [k \in 1..Len(links) |->
        Outcome(links[k], IncludesBroken(links[k]) \/ k \in lucky)]

\* the value checkBrokenLinks returns: an array, or something that is none
Returned(items) == [defined |-> TRUE, items |-> items]
Undefined == [defined |-> FALSE, items |-> <<>>]

\* response.data.results of POST /check-links: whatever the service sends
ApiResults ==
    {Undefined}
    \cup {Returned(r) :
            r \in SeqsUpTo({Outcome(h, b) : h \in Hrefs, b \in BOOLEAN},
                           MaxLinks)}

\* response.data.issues of POST /analyze
ApiIssues == {<<>>, <<Issue("Broken Links", "high", 1)>>}


(***************************************************************************)
(* State of one scrape request.                                            *)
(***************************************************************************)
VARIABLES
    client,             \* the client module the route is built with
    env,                \* process.env: apiKey set, NODE_ENV = development
    body,               \* the request body: json, url, save
    pc,                 \* where the request handler or the client call is
    scrapedData,        \* what scrapeWebsite returned
    caught,             \* the message of the error a catch block holds
    browserInstance,    \* part_004:129  the cached browser is launched
    page,               \* the page of the running client call
    linkUrls,           \* the argument of checkBrokenLinks
    base,               \* the loop index i: links before the running batch
    inflight,           \* positions of the probes started and not settled
    settled,            \* isBroken of the settled probes of the running batch
    results,            \* the results array of checkBrokenLinks
    brokenLinksResult,  \* what checkBrokenLinks returned
    enhancedLinks,
    issues,
    savedData,
    store,              \* the rows of table scraped_data
    response,           \* the HTTP response
    stageLog,           \* history: the stages begun, in order
    probeLog,           \* history: what each settled probe came to
    faults,             \* history: fetchTimeout, proberDown
    html,               \* the page source and base URL given to the extractor
    completion,         \* what the language-model call came to
    analysis,           \* what analyzeContent returned
    allText,            \* the text given to the text measures on their own
    keywords,           \* what calculateKeywordDensity returned
    sentiment,          \* what calculateSentiment and its label came to
    issued,             \* how many ids crypto.randomUUID() has generated
    request,            \* the request an endpoint of the store is handling
    answer,             \* the response to it
    dbLog,              \* history: persistence calls of the request, failed
    produced,           \* history: the results of successful pipeline runs
    served,             \* how many requests have arrived
    handle,             \* part_004:129  browserInstance as a handle
    browsers,           \* the browsers launched: open or closed
    runs,               \* the concurrent calls of the Puppeteer client
    closer,             \* the browser closeBrowser is closing
    calls,              \* how many client calls have started
    scrapedItems,       \* history/page.tsx:10
    searchTerm,         \* history-list.tsx:35
    selectedItems,      \* history-list.tsx:36
    isDeleting,         \* history-list.tsx:37
    isSelectMode,       \* history-list.tsx:38
    deleting            \* the delete request of the list in flight

vars ==
    <<client, env, body, pc, scrapedData, caught, browserInstance, page,
      linkUrls, base, inflight, settled, results, brokenLinksResult,
      enhancedLinks, issues, savedData, store, issued, response, stageLog, probeLog,
      faults, html, completion, analysis, allText, keywords, sentiment,
      issued, request, answer, dbLog, produced, served, handle, browsers,
      runs, closer, calls, scrapedItems, searchTerm, selectedItems, isDeleting,
      isSelectMode, deleting>>

\* what the request and its configuration are, and what only the content
\* analysis and the extractor on their own write
textVars == <<allText, keywords, sentiment>>
endpointVars == <<request, answer, dbLog, produced, served>>
browserVars == <<handle, browsers, runs, closer, calls>>
historyVars ==
    <<scrapedItems, searchTerm, selectedItems, isDeleting, isSelectMode,
      deleting>>
inputVars ==
    <<client, env, body, html, completion, analysis, textVars, endpointVars,
      browserVars, historyVars>>
requestVars == <<inputVars, browserInstance>>
probeVars == <<linkUrls, base, inflight, settled, results, probeLog>>
routeVars == <<enhancedLinks, issues, savedData, store, issued, response>>

\* a function extended or overwritten at one point
Put(f, k, v) == [x \in DOMAIN f \cup {k} |-> IF x = k THEN v ELSE f[x]]
Empty == [x \in {} |-> FALSE]

NoId == 0
\* nothing extracted from, no model call made, no analysis returned
NoHtml == [baseUrl |-> <<>>, elements |-> <<>>]
NotCalled == [kind |-> "none", reply |-> "none"]
NoAnalysis == [strategy |-> "none"]
NoSaved == [id |-> NoId, createdAt |-> NULL]
NoKeywords == [keywordDensity |-> <<>>, topKeywords |-> <<>>, called |-> FALSE]
NoSentiment == [called |-> FALSE]
NoRequest == [endpoint |-> "none"]
NoAnswer == [status |-> 0, id |-> NoId, createdAt |-> NULL]
NoCalls == [calls |-> 0, failed |-> FALSE]
NoBrowser == 0
NoDelete == [kind |-> "none", ids |-> {}]

NoResponse ==
    [status |-> 0, error |-> "", title |-> NullTitle, headings |-> <<>>,
     links |-> <<>>, screenshot |-> NULL, issues |-> <<>>, id |-> NoId,
     createdAt |-> NULL]

\* NextResponse.json({ error }, { status })
ErrorResponse(status, msg) == [NoResponse EXCEPT !.status = status, !.error = msg]

Bodies ==
    {[json |-> FALSE, url |-> UrlEmpty, save |-> FALSE]}
    \cup {[json |-> TRUE, url |-> u, save |-> s] : u \in RequestUrls,
                                                   s \in BOOLEAN}

\* the configurations a client reads
Envs(c) ==
    IF c = "puppeteer"
    THEN {[apiKey |-> FALSE, dev |-> FALSE]}
    ELSE IF c = "firecrawl"
    THEN {[apiKey |-> k, dev |-> FALSE] : k \in BOOLEAN}
    ELSE {[apiKey |-> k, dev |-> d] : k \in BOOLEAN, d \in BOOLEAN}

\* no text measure called on its own
IdleText == allText = <<>> /\ keywords = NoKeywords /\ sentiment = NoSentiment

\* no request to an endpoint of the store
IdleEndpoints ==
    /\ request = NoRequest /\ answer = NoAnswer /\ dbLog = NoCalls
    /\ produced = {} /\ served = 0

\* no call of the Puppeteer client on its own
IdleBrowser ==
    /\ handle = NoBrowser /\ browsers = Empty /\ runs = Empty
    /\ closer = NoBrowser /\ calls = 0

\* no history list shown
IdleHistory ==
    /\ scrapedItems = {} /\ searchTerm = <<>> /\ selectedItems = {}
    /\ isDeleting = FALSE /\ isSelectMode = FALSE /\ deleting = NoDelete

\* nothing called, nothing stored, nothing answered
IdleCall ==
    /\ issued = 0
    /\ caught = ""
    /\ page = "none"
    /\ base = 0
    /\ inflight = {}
    /\ settled = Empty
    /\ results = <<>>
    /\ brokenLinksResult = Undefined
    /\ enhancedLinks = <<>>
    /\ issues = <<>>
    /\ savedData = NoSaved
    /\ store = {}
    /\ response = NoResponse
    /\ probeLog = Empty
    /\ faults = {}
    /\ html = NoHtml
    /\ completion = NotCalled
    /\ analysis = NoAnalysis

\* no scrape request
IdleRequest ==
    /\ client = "puppeteer"
    /\ env = [apiKey |-> FALSE, dev |-> FALSE]
    /\ body = [json |-> TRUE, url |-> UrlHttp, save |-> FALSE]
    /\ browserInstance = FALSE
    /\ scrapedData = NoDoc
    /\ linkUrls = <<>>
    /\ stageLog = <<>>
    /\ IdleCall

InitCall ==
    /\ IdleText
    /\ IdleEndpoints
    /\ IdleBrowser
    /\ IdleHistory
    /\ IdleCall

Init ==
    /\ client \in Clients
    /\ env \in Envs(client)
    /\ body \in Bodies
    /\ browserInstance \in (IF client = "puppeteer" THEN BOOLEAN ELSE {FALSE})
    /\ pc = "start"
    /\ scrapedData = NoDoc
    /\ linkUrls = <<>>
    /\ stageLog = <<>>
    /\ InitCall

\* the handler answers, and is done
Respond(r) ==
    /\ response' = r
    /\ pc' = "done"
    /\ stageLog' = Append(stageLog, "response")

(***************************************************************************)
(* route.ts:12-34  the body is parsed and its url validated; a valid       *)
(* request calls scrapeWebsite.                                            *)
(***************************************************************************)
RouteValidate ==
    /\ pc = "start"
    /\ IF ~body.json
       THEN Respond(ErrorResponse(400, "Invalid JSON in request body"))
       ELSE IF ~urlSchema(body.url)
       THEN Respond(ErrorResponse(400, "Invalid URL format"))
       ELSE /\ pc' = "scrape"
            /\ stageLog' = Append(stageLog, "fetch")
            /\ UNCHANGED response
    /\ UNCHANGED faults
    /\ UNCHANGED <<requestVars, probeVars, scrapedData, caught, page,
                   brokenLinksResult, enhancedLinks, issues, savedData, store, issued>>

\* history: the fetch ended on a timeout
FetchFault(msg) == IF msg \in TimeoutMessages THEN {"fetchTimeout"} ELSE {}

\* scrapeWebsite returns d
ScrapeReturns(d) ==
    /\ scrapedData' = d
    /\ pc' = "scraped"

\* the error field left out of the Document
ErrorDocWithoutError(url, msg) == Doc(url, NullTitle, <<>>, <<>>, NULL, "")

\* the Document of a failed scrape
ErrorDoc(url, msg) == Doc(url, NullTitle, <<>>, <<>>, NULL, msg)

(***************************************************************************)
(* scrapeWebsite of the Firecrawl SDK client, part_005:304-452.            *)
(***************************************************************************)
\* part_005:427-441  the message the catch block reports
FirecrawlErrorMessage(msg) ==
    IF Includes(msg, "Unexpected token")
    THEN "Firecrawl API returned invalid response - likely an authentication or rate limit issue"
    ELSE IF Includes(msg, "API key")
    THEN "Invalid or missing Firecrawl API key"
    ELSE IF Includes(msg, "timeout")
    THEN "Request timed out - website may be slow or unavailable"
    ELSE IF Includes(msg, "rate limit")
    THEN "Firecrawl API rate limit exceeded - please try again later"
    ELSE OrElse(msg, MsgDefault)

\* what Promise.race([scrapeUrl(...), 28 s timer]) comes to
Settles(kind, msg, p) == [kind |-> kind, msg |-> msg, page |-> p]
NoPage == [title |-> NullTitle, headings |-> <<>>, links |-> <<>>,
           screenshot |-> NULL]
ScrapeFailures ==
    {Settles("timer", MsgRaceTimeout, NoPage),
     Settles("html", MsgHtmlPage, NoPage),
     Settles("unexpected", MsgUnexpectedFormat, NoPage)}
    \cup {Settles("throw", m, NoPage) :
            m \in {MsgUnexpectedToken, MsgNetwork, MsgRateLimit, ""}}
    \cup {Settles("failure", OrElse(e, MsgDefault), NoPage) :
            e \in {"", MsgUpstream}}
ScrapeOutcomes == ScrapeFailures \cup {Settles("data", "", p) : p \in Pages}

\* part_005:305-318  up to the call of the SDK
FirecrawlScrape ==
    /\ pc = "scrape"
    /\ client = "firecrawl"
    /\ IF ~isValidUrl(body.url)
       THEN /\ ScrapeReturns(ErrorDoc(body.url,
                                      FirecrawlErrorMessage(MsgInvalidUrl)))
            /\ caught' = MsgInvalidUrl
       ELSE IF ~env.apiKey
       THEN /\ ScrapeReturns(ErrorDoc(body.url, FirecrawlErrorMessage(MsgNoKey)))
            /\ caught' = MsgNoKey
       ELSE pc' = "F_fetching" /\ UNCHANGED <<scrapedData, caught>>
    /\ UNCHANGED faults
    /\ UNCHANGED <<requestVars, probeVars, routeVars, page, brokenLinksResult,
                   stageLog>>

\* part_005:333-451  the race settles; the reply is unpacked or the error caught
FirecrawlScrapeSettles(o) ==
    /\ pc = "F_fetching"
    /\ IF o.kind = "data"
       THEN ScrapeReturns(Doc(body.url, o.page.title, o.page.headings,
                              o.page.links, o.page.screenshot, ""))
       ELSE ScrapeReturns(ErrorDoc(body.url, FirecrawlErrorMessage(o.msg)))
    /\ caught' = o.msg
    /\ faults' = faults \cup FetchFault(o.msg)
    /\ UNCHANGED <<requestVars, probeVars, routeVars, page, brokenLinksResult,
                   stageLog>>


(***************************************************************************)
(* scrapeWebsite of the Puppeteer client, part_004:178-261.                *)
(***************************************************************************)
\* getBrowser() and browser.newPage(): both work, or one of them rejects.
\* A cached browser is not launched again (part_004:135).
OpenOutcomes == {"ok", "launchFails", "newPageFails"}
CanOpen(o) == o = "launchFails" => ~browserInstance
Launched(o) == browserInstance \/ o # "launchFails"

\* page.title() is a string; the screenshot is always a data URL (part_004:244)
PuppeteerDoc(url, p) ==
    Doc(url, IF p.title.null THEN Title(<<>>) ELSE p.title, p.headings,
        p.links, Screenshot, "")

LoadFailures == {MsgNavTimeout, MsgNetwork, ""}

\* part_004:183-190  validation, getBrowser, newPage; the catch finds no page
PuppeteerScrapeOpen(o) ==
    /\ pc = "scrape"
    /\ client = "puppeteer"
    /\ CanOpen(o)
    /\ IF ~isValidUrl(body.url)
       THEN /\ ScrapeReturns(ErrorDoc(body.url, MsgInvalidUrl))
            /\ caught' = MsgInvalidUrl
            /\ UNCHANGED <<browserInstance, page>>
       ELSE /\ browserInstance' = Launched(o)
            /\ IF o = "ok"
               THEN /\ page' = "open"
                    /\ pc' = "P_loading"
                    /\ UNCHANGED <<scrapedData, caught>>
               ELSE /\ ScrapeReturns(ErrorDoc(body.url, MsgLaunch))
                    /\ caught' = MsgLaunch
                    /\ UNCHANGED page
    /\ UNCHANGED faults
    /\ UNCHANGED <<inputVars, probeVars, routeVars, brokenLinksResult,
                   stageLog>>

\* part_004:193-234  the page loads and is read: it works
PuppeteerScrapeLoads(p) ==
    /\ pc = "P_loading"
    /\ scrapedData' = PuppeteerDoc(body.url, p)
    /\ pc' = "P_closing"
    /\ UNCHANGED faults
    /\ UNCHANGED <<requestVars, probeVars, routeVars, caught, page,
                   brokenLinksResult, stageLog>>

\* part_004:193-234  goto, title, evaluate or screenshot rejects
PuppeteerScrapeLoadFails(msg) ==
    /\ pc = "P_loading"
    /\ caught' = msg
    /\ faults' = faults \cup FetchFault(msg)
    /\ pc' = "P_catching"
    /\ UNCHANGED <<requestVars, probeVars, routeVars, scrapedData, page,
                   brokenLinksResult, stageLog>>

\* part_004:237-245  page.close() on the success path
PuppeteerScrapeClose(closes) ==
    /\ pc = "P_closing"
    /\ IF closes
       THEN /\ page' = "closed"
            /\ pc' = "scraped"
            /\ UNCHANGED <<scrapedData, caught>>
       ELSE /\ caught' = MsgPageClosed
            /\ scrapedData' = NoDoc
            /\ pc' = "P_catching"
            /\ UNCHANGED page
    /\ UNCHANGED faults
    /\ UNCHANGED <<requestVars, probeVars, routeVars, brokenLinksResult,
                   stageLog>>

\* part_004:246-260  the catch block closes the page with no try of its own:
\* when that close rejects, scrapeWebsite rejects
PuppeteerScrapeCatch(closes) ==
    /\ pc = "P_catching"
    /\ IF closes
       THEN /\ page' = "closed"
            /\ ScrapeReturns(ErrorDoc(body.url, OrElse(caught, MsgDefault)))
            /\ UNCHANGED caught
       ELSE /\ caught' = MsgPageClosed
            /\ pc' = "scrapeThrew"
            /\ UNCHANGED <<scrapedData, page>>
    /\ UNCHANGED faults
    /\ UNCHANGED <<requestVars, probeVars, routeVars, brokenLinksResult,
                   stageLog>>

(***************************************************************************)
(* scrapeWebsite of the Firecrawl HTTP client, part_005:65-124.            *)
(***************************************************************************)
\* part_005:106-123  the catch block: mock data in development
ApiScrapeCatch(url, e, msg) ==
    IF e.dev THEN getMockData(url) ELSE ErrorDoc(url, OrElse(msg, MsgDefault))

\* part_005:96-103  the reply with each heading's level added
ApiDoc(url, p) ==
    Doc(url, p.title,
        [k \in 1..Len(p.headings) |->
            [p.headings[k] EXCEPT !.level = LevelOfTag(p.headings[k].tag)]],
        p.links, p.screenshot, "")

\* response.data of POST /scrape: the pages, and one whose heading carries
\* its tag name in upper case, as the tagName of a DOM element is
ApiUpperCasePage ==
    [title |-> Title(Chars(14)),
     headings |-> <<[tag |-> "H2", text |-> TextA, level |-> 2]>>,
     links |-> <<>>, screenshot |-> Screenshot]
ApiPages == Pages \cup {ApiUpperCasePage}

ApiFailures == {MsgAxiosTimeout, MsgAxiosStatus, MsgApiStatus}

\* part_005:68-78
ApiScrape ==
    /\ pc = "scrape"
    /\ client = "firecrawlApi"
    /\ IF ~isValidUrl(body.url)
       THEN /\ ScrapeReturns(ApiScrapeCatch(body.url, env, MsgInvalidUrl))
            /\ caught' = MsgInvalidUrl
       ELSE IF UseMockData(env)
       THEN ScrapeReturns(getMockData(body.url)) /\ UNCHANGED caught
       ELSE pc' = "A_fetching" /\ UNCHANGED <<scrapedData, caught>>
    /\ UNCHANGED faults
    /\ UNCHANGED <<requestVars, probeVars, routeVars, page, brokenLinksResult,
                   stageLog>>

\* part_005:80-105  POST /scrape answers
ApiScrapeSettles(p) ==
    /\ pc = "A_fetching"
    /\ ScrapeReturns(ApiDoc(body.url, p))
    /\ UNCHANGED faults
    /\ UNCHANGED <<requestVars, probeVars, routeVars, caught, page,
                   brokenLinksResult, stageLog>>

\* part_005:80-123  POST /scrape fails, or its reply cannot be used
ApiScrapeFails(msg) ==
    /\ pc = "A_fetching"
    /\ ScrapeReturns(ApiScrapeCatch(body.url, env, msg))
    /\ caught' = msg
    /\ faults' = faults \cup FetchFault(msg)
    /\ UNCHANGED <<requestVars, probeVars, routeVars, page, brokenLinksResult,
                   stageLog>>

(***************************************************************************)
(* route.ts:38-84  after scrapeWebsite.                                    *)
(***************************************************************************)
\* route.ts:40-77  scrapeWebsite rejected
RouteScrapeThrew ==
    /\ pc = "scrapeThrew"
    /\ IF Includes(caught, "Unexpected token")
       THEN Respond(ErrorResponse(502, "Firecrawl API authentication failed"))
       ELSE IF Includes(caught, "timeout")
       THEN Respond(ErrorResponse(504, "Request timeout"))
       ELSE IF Includes(caught, "API key")
       THEN Respond(ErrorResponse(401, "Invalid Firecrawl API key"))
       ELSE Respond(ErrorResponse(500, OrElse(caught, MsgDefault)))
    /\ UNCHANGED faults
    /\ UNCHANGED <<requestVars, probeVars, scrapedData, caught, page,
                   brokenLinksResult, enhancedLinks, issues, savedData, store, issued>>

\* the check of the error field left out
ScrapeFailedNever(d) == FALSE

\* route.ts:79  !scrapedData || scrapedData.error
ScrapeFailed(d) == d.error # ""

\* href of every link
HrefsOf(links) == [k \in 1..Len(links) |-> links[k].href]

\* route.ts:79-88  an error Document ends the request; otherwise the links
\* go to checkBrokenLinks
RouteScraped ==
    /\ pc = "scraped"
    /\ IF ScrapeFailed(scrapedData)
       THEN /\ Respond(ErrorResponse(500, scrapedData.error))
            /\ UNCHANGED linkUrls
       ELSE /\ linkUrls' = HrefsOf(scrapedData.links)
            /\ pc' = "probe"
            /\ stageLog' = Append(stageLog, "probe")
            /\ UNCHANGED response
    /\ UNCHANGED faults
    /\ UNCHANGED <<requestVars, scrapedData, caught, page, base, inflight,
                   settled, results, probeLog, brokenLinksResult,
                   enhancedLinks, issues, savedData, store, issued>>


(***************************************************************************)
(* checkBrokenLinks: the batch loop of the Firecrawl SDK client            *)
(* (part_005:517-543) and of the Puppeteer client (part_004:283-308).      *)
(* batch.map(async ...) starts every probe of the batch at once; each      *)
(* settles on its own; Promise.all resumes the loop when all have.         *)
(***************************************************************************)
Min(a, b) == IF a < b THEN a ELSE b

\* links.slice(from): the end of the batch left out
SliceToEnd(links, from, size) == (from + 1)..Len(links)

\* positions of links.slice(from, from + size)
Slice(links, from, size) == (from + 1)..Min(from + size, Len(links))

\* Promise.all(batchPromises) is fulfilled: no probe of the batch is pending
AllSettled(pending) == pending = {}

\* the outcomes of the batch, in the order of the batch
BatchResults(links, from, size, done) ==
    [k \in 1..Cardinality(Slice(links, from, size)) |->
        Outcome(links[from + k], done[from + k])]

\* one probe settles: its try/catch turns what happened into isBroken
ProbeSettles(p, isBroken, o) ==
    /\ p \in inflight
    /\ inflight' = inflight \ {p}
    /\ settled' = Put(settled, p, isBroken)
    /\ probeLog' = Put(probeLog, p, o)

\* the loop at position from with the results so far: the next batch starts,
\* or the loop ends
LoopFrom(from, size, soFar, running, after) ==
    /\ base' = from
    /\ results' = soFar
    /\ settled' = Empty
    /\ IF from < Len(linkUrls)
       THEN /\ inflight' = Slice(linkUrls, from, size)
            /\ pc' = running
            /\ UNCHANGED brokenLinksResult
       ELSE inflight' = {} /\ after

CheckReturns(r) ==
    /\ brokenLinksResult' = r
    /\ pc' = "probed"

\* part_005:520-526  the call: the first batch starts, or [] is returned
FirecrawlCheck ==
    /\ pc = "probe"
    /\ client = "firecrawl"
    /\ LoopFrom(0, FirecrawlBatchSize, <<>>, "F_probing",
                CheckReturns(Returned(<<>>)))
    /\ UNCHANGED faults
    /\ UNCHANGED <<requestVars, routeVars, scrapedData, caught, page,
                   linkUrls, probeLog, stageLog>>

\* part_005:526-536  one fetch(url, HEAD) settles
FirecrawlProbeSettles(p, o) ==
    /\ pc = "F_probing"
    /\ ProbeSettles(p, FirecrawlProbe(o), o)
    /\ UNCHANGED faults
    /\ UNCHANGED <<requestVars, routeVars, scrapedData, caught, page, pc,
                   linkUrls, base, results, brokenLinksResult, stageLog>>

\* part_005:538-542  the batch is through: its outcomes are pushed and the
\* loop goes on or returns
FirecrawlBatchDone ==
    /\ pc = "F_probing"
    /\ AllSettled(inflight)
    /\ LET soFar == results \o BatchResults(linkUrls, base, FirecrawlBatchSize,
                                            settled)
       IN  LoopFrom(base + FirecrawlBatchSize, FirecrawlBatchSize, soFar,
                    "F_probing", CheckReturns(Returned(soFar)))
    /\ UNCHANGED faults
    /\ UNCHANGED <<requestVars, routeVars, scrapedData, caught, page,
                   linkUrls, probeLog, stageLog>>

\* part_004:274-293  getBrowser, newPage, the chunks; the first chunk starts.
\* When the browser or the page cannot be had the catch finds no page and
\* every link is returned not broken.
PuppeteerCheckOpen(o) ==
    /\ pc = "probe"
    /\ client = "puppeteer"
    /\ CanOpen(o)
    /\ browserInstance' = Launched(o)
    /\ IF o = "ok"
       THEN /\ page' = "open"
            /\ LoopFrom(0, PuppeteerConcurrencyLimit, <<>>, "P_probing",
                        pc' = "P_checkClosing" /\ UNCHANGED brokenLinksResult)
            /\ UNCHANGED <<caught, faults>>
       ELSE /\ CheckReturns(Returned(AllNotBroken(linkUrls)))
            /\ caught' = MsgLaunch
            /\ faults' = faults \cup {"proberDown"}
            /\ UNCHANGED <<page, base, inflight, settled, results>>
    /\ UNCHANGED <<inputVars, routeVars, scrapedData, linkUrls,
                   probeLog, stageLog>>

\* part_004:294-304  one page.goto(url) settles
PuppeteerProbeSettles(p, o) ==
    /\ pc = "P_probing"
    /\ ProbeSettles(p, PuppeteerProbe(o), o)
    /\ UNCHANGED faults
    /\ UNCHANGED <<requestVars, routeVars, scrapedData, caught, page, pc,
                   linkUrls, base, results, brokenLinksResult, stageLog>>

\* part_004:306-308  the chunk is through
PuppeteerChunkDone ==
    /\ pc = "P_probing"
    /\ AllSettled(inflight)
    /\ LoopFrom(base + PuppeteerConcurrencyLimit, PuppeteerConcurrencyLimit,
                results \o BatchResults(linkUrls, base,
                                        PuppeteerConcurrencyLimit, settled),
                "P_probing", pc' = "P_checkClosing" /\ UNCHANGED brokenLinksResult)
    /\ UNCHANGED faults
    /\ UNCHANGED <<requestVars, routeVars, scrapedData, caught, page,
                   linkUrls, probeLog, stageLog>>

\* part_004:310-313  page.close() after the loop
PuppeteerCheckClose(closes) ==
    /\ pc = "P_checkClosing"
    /\ IF closes
       THEN /\ page' = "closed"
            /\ CheckReturns(Returned(results))
            /\ UNCHANGED caught
       ELSE /\ caught' = MsgPageClosed
            /\ pc' = "P_checkCatching"
            /\ UNCHANGED <<page, brokenLinksResult>>
    /\ UNCHANGED faults
    /\ UNCHANGED <<requestVars, routeVars, probeVars, scrapedData, stageLog>>

\* part_004:314-322  the catch block closes the page with no try of its own
\* and then reports every link not broken
PuppeteerCheckCatch(closes) ==
    /\ pc = "P_checkCatching"
    /\ IF closes
       THEN /\ page' = "closed"
            /\ CheckReturns(Returned(AllNotBroken(linkUrls)))
       ELSE /\ pc' = "checkThrew"
            /\ UNCHANGED <<page, brokenLinksResult>>
    /\ UNCHANGED faults
    /\ UNCHANGED <<requestVars, routeVars, probeVars, scrapedData, caught,
                   stageLog>>

(***************************************************************************)
(* checkBrokenLinks of the Firecrawl HTTP client, part_005:131-176.        *)
(***************************************************************************)
\* part_005:162-175  the catch block; lucky: the links Math.random() hits
ApiCheckCatch(links, e, lucky) ==
    IF e.dev THEN MockOutcomes(links, lucky) ELSE AllNotBroken(links)

\* part_005:134-143
ApiCheck(lucky) ==
    /\ pc = "probe"
    /\ client = "firecrawlApi"
    /\ IF UseMockData(env)
       THEN CheckReturns(Returned(MockOutcomes(linkUrls, lucky)))
       ELSE /\ lucky = {}
            /\ pc' = "A_probing"
            /\ UNCHANGED brokenLinksResult
    /\ UNCHANGED faults
    /\ UNCHANGED <<requestVars, routeVars, probeVars, scrapedData, caught,
                   page, stageLog>>

\* part_005:145-161  POST /check-links answers: its results are returned
ApiCheckSettles(r) ==
    /\ pc = "A_probing"
    /\ CheckReturns(r)
    /\ UNCHANGED faults
    /\ UNCHANGED <<requestVars, routeVars, probeVars, scrapedData, caught,
                   page, stageLog>>

\* part_005:145-175  POST /check-links fails
ApiCheckFails(msg, lucky) ==
    /\ pc = "A_probing"
    /\ env.dev \/ lucky = {}
    /\ CheckReturns(Returned(ApiCheckCatch(linkUrls, env, lucky)))
    /\ caught' = msg
    /\ faults' = faults \cup {"proberDown"}
    /\ UNCHANGED <<requestVars, routeVars, probeVars, scrapedData, page,
                   stageLog>>


(***************************************************************************)
(* route.ts:86-145  after checkBrokenLinks.                                *)
(***************************************************************************)
\* route.ts:138-144  the handler's own catch
RouteThrew ==
    /\ pc = "checkThrew"
    /\ Respond(ErrorResponse(500, OrElse(caught, "Internal server error")))
    /\ UNCHANGED faults
    /\ UNCHANGED <<requestVars, probeVars, scrapedData, caught, page,
                   brokenLinksResult, enhancedLinks, issues, savedData, store, issued>>

RECURSIVE Reduce(_, _)
\* route.ts:91-97  brokenLinksResult.reduce: a later outcome of a url
\* overwrites an earlier one
Reduce(outcomes, acc) ==
    IF outcomes = <<>>
    THEN acc
    ELSE Reduce(Tail(outcomes),
                Put(acc, Head(outcomes).url, Head(outcomes).isBroken))

brokenLinksMap(outcomes) == Reduce(outcomes, Empty)

\* brokenLinksMap[link.href] || true
LookupOrTrue(map, href) == IF href \in DOMAIN map THEN map[href] ELSE TRUE

\* brokenLinksMap[link.href] || false
Lookup(map, href) == IF href \in DOMAIN map THEN map[href] ELSE FALSE

\* route.ts:100-103
Enhance(links, map) ==
    [k \in 1..Len(links) |->
        [href |-> links[k].href, text |-> links[k].text,
         isBroken |-> Lookup(map, links[k].href)]]

\* analyzeWebsiteIssues of the two clients that analyze locally
Analyze(c, d) == IF c = "puppeteer" THEN PuppeteerAnalyze(d) ELSE FirecrawlAnalyze(d)

\* route.ts:90-112  the outcomes are folded into the links and the enhanced
\* Document goes to analyzeWebsiteIssues; reduce on no array throws
RouteEnhance ==
    /\ pc = "probed"
    /\ IF ~brokenLinksResult.defined
       THEN /\ Respond(ErrorResponse(500, MsgNotIterable))
            /\ UNCHANGED <<enhancedLinks, issues>>
       ELSE LET links == Enhance(scrapedData.links,
                                 brokenLinksMap(brokenLinksResult.items))
                enhancedData == [scrapedData EXCEPT !.links = links]
            IN  /\ enhancedLinks' = links
                /\ stageLog' = Append(stageLog, "analysis")
                /\ UNCHANGED response
                /\ IF client # "firecrawlApi"
                   THEN issues' = Analyze(client, enhancedData)
                        /\ pc' = "analyzed"
                   ELSE IF UseMockData(env)
                   THEN issues' = MockIssues /\ pc' = "analyzed"
                   ELSE pc' = "A_analyzing" /\ UNCHANGED issues
    /\ UNCHANGED faults
    /\ UNCHANGED <<requestVars, probeVars, scrapedData, caught, page,
                   brokenLinksResult, savedData, store, issued>>

\* part_005:217-238  POST /analyze answers: response.data.issues || []
ApiAnalyzeSettles(found) ==
    /\ pc = "A_analyzing"
    /\ issues' = found
    /\ pc' = "analyzed"
    /\ UNCHANGED faults
    /\ UNCHANGED <<requestVars, probeVars, scrapedData, caught, page,
                   brokenLinksResult, enhancedLinks, savedData, store, issued,
                   response, stageLog>>

\* part_005:239-274  POST /analyze fails
ApiAnalyzeFails(msg) ==
    /\ pc = "A_analyzing"
    /\ issues' = (IF env.dev THEN MockIssues ELSE AnalyzeErrorIssue)
    /\ caught' = msg
    /\ pc' = "analyzed"
    /\ UNCHANGED faults
    /\ UNCHANGED <<requestVars, probeVars, scrapedData, page,
                   brokenLinksResult, enhancedLinks, savedData, store, issued,
                   response, stageLog>>

\* an id no stored row has (crypto.randomUUID)
\* supabase/client.ts:42  crypto.randomUUID(): an id never generated before
FreshIdReused(n) == 1
FreshId(n) == n + 1

\* supabase/client.ts:38-67  saveScrapedData: the row is inserted and
\* returned, or the insert fails and null is returned
Row(id, url, title, headings, links, screenshot, found) ==
    [id |-> id, url |-> url, title |-> title, headings |-> headings,
     links |-> links, screenshot |-> screenshot, issues |-> found,
     createdAt |-> "inserted"]

\* route.ts:114-125  save was asked for
RouteSave(inserted) ==
    /\ pc = "analyzed"
    /\ body.save
    /\ stageLog' = Append(stageLog, "save")
    /\ pc' = "saved"
    /\ IF inserted
       THEN LET row == Row(FreshId(issued), body.url, scrapedData.title,
                           scrapedData.headings, enhancedLinks,
                           scrapedData.screenshot, issues)
            IN  /\ store' = store \cup {row}
                /\ savedData' = [id |-> row.id, createdAt |-> row.createdAt]
       ELSE UNCHANGED <<store, savedData>>
    /\ issued' = issued + 1
    /\ UNCHANGED faults
    /\ UNCHANGED <<requestVars, probeVars, scrapedData, caught, page,
                   brokenLinksResult, enhancedLinks, issues, response>>

\* route.ts:127-137  the result
Result ==
    [status |-> 200, error |-> "", title |-> scrapedData.title,
     headings |-> scrapedData.headings, links |-> enhancedLinks,
     screenshot |-> scrapedData.screenshot, issues |-> issues,
     id |-> savedData.id,
     createdAt |-> IF savedData.createdAt # NULL
                   THEN savedData.createdAt
                   ELSE "now"]

RouteRespond ==
    /\ pc = "saved" \/ (pc = "analyzed" /\ ~body.save)
    /\ Respond(Result)
    /\ UNCHANGED faults
    /\ UNCHANGED <<requestVars, probeVars, scrapedData, caught, page,
                   brokenLinksResult, enhancedLinks, issues, savedData, store, issued>>

(***************************************************************************)
(* One scrape request from its arrival to its response.                    *)
(***************************************************************************)
Next ==
    \/ RouteValidate
    \/ FirecrawlScrape
    \/ \E o \in ScrapeOutcomes : FirecrawlScrapeSettles(o)
    \/ \E o \in OpenOutcomes : PuppeteerScrapeOpen(o)
    \/ \E p \in Pages : PuppeteerScrapeLoads(p)
    \/ \E m \in LoadFailures : PuppeteerScrapeLoadFails(m)
    \/ \E closes \in BOOLEAN : PuppeteerScrapeClose(closes)
    \/ \E closes \in BOOLEAN : PuppeteerScrapeCatch(closes)
    \/ ApiScrape
    \/ \E p \in ApiPages : ApiScrapeSettles(p)
    \/ \E m \in ApiFailures \cup {MsgNoHeadings} : ApiScrapeFails(m)
    \/ RouteScrapeThrew
    \/ RouteScraped
    \/ FirecrawlCheck
    \/ \E p \in inflight, o \in FetchOutcomes : FirecrawlProbeSettles(p, o)
    \/ FirecrawlBatchDone
    \/ \E o \in OpenOutcomes : PuppeteerCheckOpen(o)
    \/ \E p \in inflight, o \in GotoOutcomes : PuppeteerProbeSettles(p, o)
    \/ PuppeteerChunkDone
    \/ \E closes \in BOOLEAN : PuppeteerCheckClose(closes)
    \/ \E closes \in BOOLEAN : PuppeteerCheckCatch(closes)
    \/ \E lucky \in SUBSET (1..Len(linkUrls)) : ApiCheck(lucky)
    \/ \E r \in ApiResults : ApiCheckSettles(r)
    \/ \E m \in {MsgAxiosTimeout, MsgAxiosStatus} : ApiCheckFails(m, {})
    \/ RouteThrew
    \/ RouteEnhance
    \/ \E found \in ApiIssues : ApiAnalyzeSettles(found)
    \/ \E m \in {MsgAxiosTimeout} : ApiAnalyzeFails(m)
    \/ \E inserted \in BOOLEAN : RouteSave(inserted)
    \/ RouteRespond

Spec == Init /\ [][Next]_vars


(***************************************************************************)
(* checkBrokenLinks on its own, on lists long enough for several batches:  *)
(* the request has fetched a page of n links and calls checkBrokenLinks.   *)
(***************************************************************************)
\* a page of n links, to two hrefs in turn
LinksOfLength(n) ==
    [k \in 1..n |-> [href |-> IF k % 2 = 1 THEN HrefA ELSE HrefB,
                     text |-> TextA]]

\* a probe answers 200 or times out
StressOutcomes == {Response(200), Throws("timeout")}

InitProbe ==
    /\ client \in {"firecrawl", "puppeteer"}
    /\ env = [apiKey |-> client = "firecrawl", dev |-> FALSE]
    /\ body = [json |-> TRUE, url |-> UrlHttp, save |-> FALSE]
    /\ browserInstance \in (IF client = "puppeteer" THEN BOOLEAN ELSE {FALSE})
    /\ pc = "probe"
    /\ \E n \in 0..MaxProbeLinks :
          /\ scrapedData = Doc(UrlHttp, Title(Chars(14)), <<>>,
                               LinksOfLength(n), Screenshot, "")
          /\ linkUrls = HrefsOf(LinksOfLength(n))
    /\ stageLog = <<"fetch", "probe">>
    /\ InitCall

NextProbe ==
    \/ FirecrawlCheck
    \/ \E p \in inflight, o \in StressOutcomes : FirecrawlProbeSettles(p, o)
    \/ FirecrawlBatchDone
    \/ \E o \in OpenOutcomes : PuppeteerCheckOpen(o)
    \/ \E p \in inflight, o \in StressOutcomes : PuppeteerProbeSettles(p, o)
    \/ PuppeteerChunkDone
    \/ \E closes \in BOOLEAN : PuppeteerCheckClose(closes)
    \/ \E closes \in BOOLEAN : PuppeteerCheckCatch(closes)

SpecProbe == InitProbe /\ [][NextProbe]_vars


(***************************************************************************)
(* Properties.                                                             *)
(***************************************************************************)
Happened(stage) == \E k \in 1..Len(stageLog) : stageLog[k] = stage

StageRank(stage) ==
    CASE stage = "fetch" -> 1
      [] stage = "probe" -> 2
      [] stage = "analysis" -> 3
      [] stage = "save" -> 4
      [] stage = "response" -> 5

\* positions of the probes started so far
Started == inflight \cup DOMAIN probeLog

\* scrapeWebsite has ended in an error
FetchErrored == scrapedData.error # "" \/ pc = "scrapeThrew"

BatchSizeOf(c) ==
    IF c = "firecrawl" THEN FirecrawlBatchSize ELSE PuppeteerConcurrencyLimit

\* C1: within one request the stages begin in the order fetch, probe,
\* analysis, save, response, each at most once: a probe is started only
\* after scrapeWebsite has returned a Document without error, analysis is
\* called only when no probe is in flight and checkBrokenLinks has returned,
\* save only after analysis has returned; a request whose fetch ended in an
\* error starts no probe, no analysis and no save.
C1_StagesInOrder ==
    /\ \A j, k \in 1..Len(stageLog) :
          j < k => StageRank(stageLog[j]) < StageRank(stageLog[k])
    /\ Started # {} => Happened("probe")
    /\ Happened("probe") =>
          /\ Happened("fetch")
          /\ scrapedData.url = body.url
          /\ scrapedData.error = ""
          /\ pc \notin {"start", "scrape", "F_fetching", "P_loading",
                        "P_closing", "P_catching", "A_fetching", "scraped",
                        "scrapeThrew"}
    /\ Happened("analysis") =>
          /\ Happened("probe")
          /\ inflight = {}
          /\ brokenLinksResult.defined
          /\ (client # "firecrawlApi" /\ "proberDown" \notin faults) =>
                DOMAIN probeLog = 1..Len(linkUrls)
    /\ Happened("save") =>
          /\ Happened("analysis")
          /\ pc \in {"saved", "done"}
    /\ FetchErrored =>
          /\ ~Happened("probe") /\ ~Happened("analysis") /\ ~Happened("save")
          /\ Started = {}
          /\ store = {}

\* a request that ran every stage, with links probed
C1_Witness ==
    /\ pc = "done"
    /\ stageLog = <<"fetch", "probe", "analysis", "save", "response">>
    /\ Cardinality(DOMAIN probeLog) >= 2

\* C2: the probes of checkBrokenLinks run in consecutive batches of the
\* client's batch size: at most that many are in flight, those in flight
\* belong to one batch, and every probe of an earlier batch has settled.
C2_OneBatchInFlight ==
    LET size == BatchSizeOf(client)
        batch(p) == (p - 1) \div size
    IN  /\ Cardinality(inflight) <= size
        /\ \A p \in inflight, q \in Started :
              /\ batch(q) <= batch(p)
              /\ batch(q) < batch(p) => q \in DOMAIN probeLog
        /\ \A p \in inflight, q \in 1..Len(linkUrls) :
              batch(q) < batch(p) => q \in DOMAIN probeLog

\* the second batch of the Firecrawl client is in flight
C2_Witness ==
    /\ client = "firecrawl"
    /\ \E p \in inflight : p > FirecrawlBatchSize
    /\ \E q \in 1..FirecrawlBatchSize : probeLog[q].kind = "throw"


\* a well-formed absolute URL with scheme http or https
IsHttpUrl(u) == UrlParses(u) /\ Scheme(u) \in {SchemeHttp, SchemeHttps}

\* C3: checkBrokenLinks returns exactly one outcome per input entry, in the
\* order of the input; a probe that threw or timed out has isBroken = true
\* in the returned list, and every other link was probed and is reported.
C3_OneOutcomePerLink ==
    /\ pc # "checkThrew"
    /\ pc = "probed" =>
          LET items == brokenLinksResult.items
          IN  /\ brokenLinksResult.defined
              /\ Len(items) = Len(linkUrls)
              /\ \A k \in 1..Len(items) : items[k].url = linkUrls[k]
              /\ \A k \in DOMAIN probeLog :
                    probeLog[k].kind = "throw" => items[k].isBroken
              /\ "proberDown" \notin faults =>
                    DOMAIN probeLog = 1..Len(linkUrls)

\* C4: in a request for an http(s) page, a probe that got a response is
\* reported broken if and only if the status is 400 or above; a probe that
\* failed or timed out is reported broken.
C4_BrokenIffErrorStatus ==
    IsHttpUrl(body.url) => \A p \in DOMAIN settled :
        /\ probeLog[p].kind = "response" =>
              (settled[p] <=> probeLog[p].status >= 400)
        /\ probeLog[p].kind = "throw" => settled[p]

Max(S) == CHOOSE x \in S : \A y \in S : y <= x

\* isBroken of the last outcome reported for href h, false when there is none
LastReported(items, h) ==
    LET hits == {j \in 1..Len(items) : items[j].url = h}
    IN  IF hits = {} THEN FALSE ELSE items[Max(hits)].isBroken

\* C5: once the prober's outcomes are folded in, the links have the length,
\* hrefs, texts and order of the extracted links; each link's isBroken is the
\* outcome reported (last) for its href, and false when none was reported;
\* the result carries exactly these links.
C5_LinksKeepOrder ==
    Happened("analysis") =>
        /\ Len(enhancedLinks) = Len(scrapedData.links)
        /\ \A k \in 1..Len(enhancedLinks) :
              /\ enhancedLinks[k].href = scrapedData.links[k].href
              /\ enhancedLinks[k].text = scrapedData.links[k].text
              /\ enhancedLinks[k].isBroken =
                    LastReported(brokenLinksResult.items,
                                 scrapedData.links[k].href)
        /\ response.status = 200 => response.links = enhancedLinks

\* the service reported the second link first and the first link not at all
C5_Witness ==
    /\ pc = "done"
    /\ response.status = 200
    /\ Len(response.links) = 2
    /\ response.links[1].href # response.links[2].href
    /\ Len(brokenLinksResult.items) = 1
    /\ brokenLinksResult.items[1] = Outcome(response.links[2].href, TRUE)
    /\ response.links[2].isBroken
    /\ ~response.links[1].isBroken

\* C6: when the prober as a whole could not run (no browser or page, or the
\* link-check call failed), checkBrokenLinks does not throw and returns every
\* input link with isBroken = false; the request goes on and, when it is
\* done, has called analysis and answered with a normal result.
C6_ProberDownFailsOpen ==
    "proberDown" \in faults =>
        /\ pc # "checkThrew"
        /\ brokenLinksResult = Returned(AllNotBroken(linkUrls))
        /\ \A k \in 1..Len(brokenLinksResult.items) :
              ~brokenLinksResult.items[k].isBroken
        /\ pc # "done" => ENABLED Next
        /\ pc = "done" =>
              /\ Happened("analysis")
              /\ response.status = 200
              /\ Len(response.links) = Len(linkUrls)
              /\ \A k \in 1..Len(response.links) : ~response.links[k].isBroken

\* no page could be opened for the link check, and the result came all the same
C6_Witness ==
    /\ "proberDown" \in faults
    /\ client = "puppeteer"
    /\ pc = "done"
    /\ response.status = 200
    /\ Len(response.links) > 0

\* a link probe of the request timed out
ProbeTimedOut == \E p \in DOMAIN probeLog : probeLog[p] = Throws("timeout")

NoContent(r) == r.headings = <<>> /\ r.links = <<>> /\ r.issues = <<>>

C8_ScrapeNeverThrows ==
    /\ IsHttpUrl(body.url) => pc # "scrapeThrew"
    /\ (pc = "scraped" /\ (caught # "" \/ scrapedData.error # "")) =>
          /\ scrapedData.error # ""
          /\ scrapedData.title = NullTitle
          /\ scrapedData.headings = <<>>
          /\ scrapedData.links = <<>>
          /\ scrapedData.screenshot = NULL

\* C9: a request whose url is not a well-formed absolute http(s) URL is
\* answered 400 'Invalid URL format' and never reaches the fetch (hence no
\* probe, analysis or save).
C9_NonHttpRejected ==
    (body.json /\ ~IsHttpUrl(body.url)) =>
        /\ stageLog \in {<<>>, <<"response">>}
        /\ pc = "done" =>
              response.status = 400 /\ response.error = "Invalid URL format"

\* C10: the issues analysis returns to the pipeline hold exactly one 'Broken
\* Links' issue, of severity high and stating the number of broken links,
\* when the Document has a broken link, and none when it has not.
C10_BrokenLinksIssue ==
    (/\ client \in {"firecrawl", "puppeteer"}
     /\ IsHttpUrl(body.url)
     /\ pc \in {"analyzed", "saved"}) =>
        LET n == Count(enhancedLinks, IsBrokenLink)
            hits == {k \in 1..Len(issues) : issues[k].type = "Broken Links"}
        IN  IF n > 0
            THEN /\ Cardinality(hits) = 1
                 /\ \A k \in hits : issues[k].severity = "high" /\ issues[k].n = n
            ELSE hits = {}

\* C24: an identifier and a creation timestamp are generated only when save
\* was requested: without it nothing is stored and the response carries no
\* identifier and no generated timestamp; with it a successful response
\* carries the identifier and timestamp of the record written.
C24_IdOnlyWhenSaving ==
    (pc = "done" /\ IsHttpUrl(body.url) /\ body.json) =>
        IF body.save
        THEN response.status = 200 =>
                \E row \in store : /\ response.id = row.id
                                   /\ response.createdAt = row.createdAt
        ELSE /\ store = {}
             /\ response.id = NoId
             /\ response.createdAt = NULL


(***************************************************************************)
(* analyzeWebsiteIssues on its own: one of the two local analyzers is      *)
(* given a Document and returns its issues.                                *)
(***************************************************************************)
\* titles: null, empty, blank, and either side of the two length limits
AnalysisTitles ==
    {NullTitle, Title(<<>>), Title(<<" ">>), Title(Chars(9)),
     Title(Chars(10)), Title(Chars(60)), Title(Chars(61))}

\* headings of three levels, with text and without
AnalysisHeadings == {Heading(l, t) : l \in 1..3, t \in {<<>>, TextA}}

EnhancedLink(href, text, isBroken) ==
    [href |-> href, text |-> text, isBroken |-> isBroken]

\* link lists: none, a sound link, broken links, links without text, and
\* links with a text that says nothing
AnalysisLinks ==
    {<<>>,
     <<EnhancedLink(HrefA, TextA, FALSE)>>,
     <<EnhancedLink(HrefA, TextA, TRUE), EnhancedLink(HrefB, TextHere, TRUE)>>,
     <<EnhancedLink(HrefA, <<" ">>, FALSE), EnhancedLink(HrefA, <<>>, FALSE)>>,
     <<EnhancedLink(HrefB, TextHere, FALSE),
       EnhancedLink(HrefB, TextHere, FALSE)>>}

InitAnalyze ==
    /\ client \in {"firecrawl", "puppeteer"}
    /\ env = [apiKey |-> client = "firecrawl", dev |-> FALSE]
    /\ body = [json |-> TRUE, url |-> UrlHttp, save |-> FALSE]
    /\ browserInstance = FALSE
    /\ pc = "I_analyze"
    /\ \E t \in AnalysisTitles, hs \in SeqsUpTo(AnalysisHeadings, MaxHeadings),
          ls \in AnalysisLinks :
          scrapedData = Doc(UrlHttp, t, hs, ls, NULL, "")
    /\ linkUrls = <<>>
    /\ stageLog = <<>>
    /\ InitCall

\* analyzeWebsiteIssues(scrapedData) returns
AnalyzeIssues ==
    /\ pc = "I_analyze"
    /\ issues' = Analyze(client, scrapedData)
    /\ pc' = "I_analyzed"
    /\ UNCHANGED <<requestVars, probeVars, scrapedData, caught, page,
                   brokenLinksResult, enhancedLinks, savedData, store, issued,
                   response, stageLog, faults>>

NextAnalyze == AnalyzeIssues

SpecAnalyze == InitAnalyze /\ [][NextAnalyze]_vars


(***************************************************************************)
(* Properties of issue analysis.                                           *)
(***************************************************************************)
\* the issues returned hold an issue of this type / of this type and severity
HasType(type) == \E k \in 1..Len(issues) : issues[k].type = type
Has(type, severity) ==
    \E k \in 1..Len(issues) :
        issues[k].type = type /\ issues[k].severity = severity

\* a title that is missing or blank
Blank(title) == title.null \/ Trim(title.text) = <<>>

\* C11: a Document with no headings and no links analyzes to an issue list
\* that holds 'No Headings' (medium) and 'Missing H1' (high), and 'Missing
\* Title' (high) when the title is null.
C11_EmptyDocument ==
    (/\ pc = "I_analyzed"
     /\ scrapedData.headings = <<>>
     /\ scrapedData.links = <<>>) =>
        /\ Has("No Headings", "medium")
        /\ Has("Missing H1", "high")
        /\ scrapedData.title.null => Has("Missing Title", "high")

\* C12: 'Missing Title' (high) is emitted exactly when the title is null,
\* empty or blank, 'Short Title' (medium) exactly when the title is not blank
\* and shorter than 10 characters, 'Long Title' (medium) exactly when it is
\* longer than 60; at most one of the three is emitted.
C12_TitleRules ==
    pc = "I_analyzed" =>
        LET title == scrapedData.title
            titleIssues == {k \in 1..Len(issues) :
                              issues[k].type \in {"Missing Title",
                                                  "Short Title", "Long Title"}}
        IN  /\ HasType("Missing Title") <=> Blank(title)
            /\ HasType("Missing Title") => Has("Missing Title", "high")
            /\ HasType("Short Title") <=>
                  (~Blank(title) /\ Len(title.text) < 10)
            /\ HasType("Short Title") => Has("Short Title", "medium")
            /\ HasType("Long Title") <=>
                  (~Blank(title) /\ Len(title.text) > 60)
            /\ HasType("Long Title") => Has("Long Title", "medium")
            /\ Cardinality(titleIssues) <= 1

\* C13: 'Missing H1' with severity high is emitted exactly when no heading
\* has level 1, 'Multiple H1s' with severity medium exactly when more than
\* one has; never both.
C13_H1Rules ==
    pc = "I_analyzed" =>
        LET h1s == {k \in 1..Len(scrapedData.headings) :
                      scrapedData.headings[k].level = 1}
        IN  /\ Has("Missing H1", "high") <=> h1s = {}
            /\ Has("Multiple H1s", "medium") <=> Cardinality(h1s) > 1
            /\ ~(HasType("Missing H1") /\ HasType("Multiple H1s"))

\* C14: the Firecrawl analyzer emits 'Heading Hierarchy' (medium), once, if
\* and only if some heading is more than one level deeper than the heading
\* directly before it; a step to a shallower level and the level of the first
\* heading never count.
C14_HeadingHierarchy ==
    (pc = "I_analyzed" /\ client = "firecrawl") =>
        LET hs == scrapedData.headings
            deeper == {k \in 2..Len(hs) : hs[k].level - hs[k - 1].level > 1}
            hits == {k \in 1..Len(issues) :
                       issues[k].type = "Heading Hierarchy"}
        IN  /\ hits # {} <=> deeper # {}
            /\ Cardinality(hits) <= 1
            /\ \A k \in hits : issues[k].severity = "medium"

\* a page that starts at level 3, steps up to level 1 and is reported for
\* nothing of that
C14_Witness ==
    /\ pc = "I_analyzed"
    /\ client = "firecrawl"
    /\ Len(scrapedData.headings) = 2
    /\ scrapedData.headings[1].level = 3
    /\ scrapedData.headings[2].level = 1
    /\ ~HasType("Heading Hierarchy")

\* the number of elements of seq that a rule counts
Offenders(seq, pred(_)) == Cardinality({k \in 1..Len(seq) : pred(seq[k])})

\* the condition of the rule that emits an issue of this type, per analyzer
RuleMatches(c, type, d) ==
    LET h1s == Offenders(d.headings, IsH1)
        both == CASE type = "Missing Title" -> Blank(d.title)
                  [] type = "Short Title" ->
                        Truthy(d.title) /\ Len(d.title.text) < 10
                  [] OTHER -> FALSE
    IN  IF c = "firecrawl"
        THEN CASE type = "Long Title" ->
                     Truthy(d.title) /\ Len(d.title.text) > 60
               [] type = "Missing H1" -> h1s = 0
               [] type = "Multiple H1s" -> h1s > 1
               [] type = "Heading Hierarchy" ->
                     \E k \in 2..Len(d.headings) :
                         d.headings[k].level > d.headings[k - 1].level + 1
               [] type = "Empty Headings" ->
                     Offenders(d.headings, IsEmptyHeading) > 0
               [] type = "Empty Links" -> Offenders(d.links, IsEmptyLink) > 0
               [] type = "Non-descriptive Links" ->
                     Offenders(d.links, IsNonDescriptive) > 0
               [] OTHER -> both
        ELSE CASE type = "No Headings" -> d.headings = <<>>
               [] type = "Missing H1" -> h1s = 0
               [] type = "Multiple H1 Headings" -> h1s > 1
               [] type = "Broken Links" -> Offenders(d.links, IsBrokenLink) > 0
               [] type = "Empty Link Text" ->
                     Offenders(d.links, IsEmptyLink) > 0
               [] OTHER -> both

IssueTypes ==
    {"Missing Title", "Short Title", "Long Title", "No Headings",
     "Missing H1", "Multiple H1s", "Multiple H1 Headings",
     "Heading Hierarchy", "Empty Headings", "Empty Links", "Empty Link Text",
     "Non-descriptive Links", "Broken Links"}

Element(kind, level, href, inner) ==
    [kind |-> kind, level |-> level, href |-> href, inner |-> inner]
HeadingElement(level, inner) == Element("h", level, <<>>, inner)
AnchorElement(href, inner) == Element("a", 0, href, inner)

\* "." of a regular expression matches no line break: an element whose inner
\* text runs over two lines is not found by /<(h[1-6])[^>]*>(.*?)<\/\1>/gi
\* nor by /<a[^>]*href=["']([^"']*)["'][^>]*>(.*?)<\/a>/gi
RegexFinds(e) == \A k \in 1..Len(e.inner) : e.inner[k] # "\n"

StartsWith(s, prefix) ==
    Len(s) >= Len(prefix) /\ SubSeq(s, 1, Len(prefix)) = prefix

\* protocol, host and pathname of new URL(baseUrl), baseUrl without query
\* and fragment
Protocol(u) == Scheme(u) \o <<":">>
Host(u) == HostOf(SkipSlashes(AfterScheme(u)))
Pathname(u) ==
    LET rest == SkipSlashes(AfterScheme(u))
        slash == IndexOf(rest, "/")
    IN  IF slash = 0 THEN <<"/">> ELSE SubSeq(rest, slash, Len(rest))

\* part_005:457-475  extractHeadings
RECURSIVE extractHeadings(_)
extractHeadings(elements) ==
    IF elements = <<>>
    THEN <<>>
    ELSE LET e == Head(elements)
             text == Trim(e.inner)
         IN  (IF e.kind = "h" /\ RegexFinds(e) /\ text # <<>>
              THEN <<Heading(e.level, text)>>
              ELSE <<>>) \o extractHeadings(Tail(elements))

\* part_005:489-500  relative URLs made absolute
AbsoluteHref(href, baseUrl) ==
    IF StartsWith(href, <<"/">>)
    THEN Protocol(baseUrl) \o <<"/", "/">> \o Host(baseUrl) \o href
    ELSE IF StartsWith(href, <<".", "/">>)
    THEN Protocol(baseUrl) \o <<"/", "/">> \o Host(baseUrl)
            \o Pathname(baseUrl) \o SubSeq(href, 3, Len(href))
    ELSE href

\* part_005:480-510  extractLinks
RECURSIVE extractLinks(_, _)
extractLinks(elements, baseUrl) ==
    IF elements = <<>>
    THEN <<>>
    ELSE LET e == Head(elements)
             text == Trim(e.inner)
             href == AbsoluteHref(e.href, baseUrl)
         IN  (IF /\ e.kind = "a"
                 /\ RegexFinds(e)
                 /\ StartsWith(href, SchemeHttp)
                 /\ text # <<>>
              THEN <<[href |-> href, text |-> text]>>
              ELSE <<>>) \o extractLinks(Tail(elements), baseUrl)

\* the base URLs: a site's root and a page two levels down
BaseRoot == UrlHttp
BasePage == UrlHttp \o <<"/", "d", "/", "p">>

HrefAbsolute == <<"h", "t", "t", "p", ":", "/", "/", "b", ".", "c", "/", "x">>
HrefRooted == <<"/", "x">>
HrefDotSlash == <<".", "/", "x">>
HrefHttpPath == <<"h", "t", "t", "p", "x">>

\* the elements a page source is made of
ElementPool ==
    {HeadingElement(1, TextA), HeadingElement(2, <<>>),
     HeadingElement(3, <<" ">>), HeadingElement(2, <<"a", "\n", "a">>),
     AnchorElement(HrefAbsolute, TextA), AnchorElement(HrefAbsolute, <<>>),
     AnchorElement(HrefRooted, TextA), AnchorElement(HrefDotSlash, TextA),
     AnchorElement(UrlMailto, TextA), AnchorElement(HrefHttpPath, TextA)}

InitExtract ==
    /\ client = "firecrawl"
    /\ env = [apiKey |-> TRUE, dev |-> FALSE]
    /\ \E baseUrl \in {BaseRoot, BasePage} :
          /\ body = [json |-> TRUE, url |-> baseUrl, save |-> FALSE]
          /\ \E elements \in SeqsUpTo(ElementPool, MaxElements) :
                html = [baseUrl |-> baseUrl, elements |-> elements]
    /\ browserInstance = FALSE
    /\ pc = "X_extract"
    /\ scrapedData = NoDoc
    /\ linkUrls = <<>>
    /\ stageLog = <<>>
    /\ caught = ""
    /\ page = "none"
    /\ base = 0
    /\ inflight = {}
    /\ settled = Empty
    /\ results = <<>>
    /\ brokenLinksResult = Undefined
    /\ enhancedLinks = <<>>
    /\ issues = <<>>
    /\ savedData = NoSaved
    /\ store = {}
    /\ response = NoResponse
    /\ probeLog = Empty
    /\ faults = {}
    /\ completion = NotCalled
    /\ analysis = NoAnalysis
    /\ IdleText
    /\ IdleEndpoints
    /\ IdleBrowser
    /\ IdleHistory
    /\ issued = 0

\* part_005:404-423  the Document is put together from the page source
ExtractDocument ==
    /\ pc = "X_extract"
    /\ scrapedData' = Doc(html.baseUrl, Title(Chars(14)),
                          extractHeadings(html.elements),
                          extractLinks(html.elements, html.baseUrl),
                          NULL, "")
    /\ pc' = "X_extracted"
    /\ UNCHANGED <<requestVars, probeVars, routeVars, caught, page,
                   brokenLinksResult, stageLog, faults>>

\* route.ts:100-112  the Document, no link of it found broken, is analyzed
ExtractAnalyze ==
    /\ pc = "X_extracted"
    /\ enhancedLinks' = Enhance(scrapedData.links, Empty)
    /\ issues' = Analyze(client,
                         [scrapedData EXCEPT !.links = enhancedLinks'])
    /\ pc' = "X_analyzed"
    /\ UNCHANGED <<requestVars, probeVars, scrapedData, caught, page,
                   brokenLinksResult, savedData, store, issued, response, stageLog,
                   faults>>

NextExtract == ExtractDocument \/ ExtractAnalyze

SpecExtract == InitExtract /\ [][NextExtract]_vars


(***************************************************************************)
(* Properties of the extractor.                                            *)
(***************************************************************************)
IsHeadingElement(e) == e.kind = "h"
IsAnchorElement(e) == e.kind = "a"

\* C16: the extractor emits one heading per heading element, in document
\* order, those with empty trimmed text included, so that an empty heading of
\* the page gives the 'Empty Headings' issue; an anchor to an http(s) URL
\* whose text is empty is kept, with its href as text.
C16_EmptyElementsKept ==
    pc \in {"X_extracted", "X_analyzed"} =>
        LET hs == SelectSeq(html.elements, IsHeadingElement)
            as == SelectSeq(html.elements, IsAnchorElement)
        IN  /\ Len(scrapedData.headings) = Len(hs)
            /\ \A k \in 1..Len(hs) :
                  scrapedData.headings[k] =
                      Heading(hs[k].level, Trim(hs[k].inner))
            /\ (pc = "X_analyzed"
                  /\ \E k \in 1..Len(hs) : Trim(hs[k].inner) = <<>>) =>
                  Has("Empty Headings", "medium")
            /\ \A k \in 1..Len(as) :
                  (IsHttpUrl(as[k].href) /\ Trim(as[k].inner) = <<>>) =>
                      \E j \in 1..Len(scrapedData.links) :
                          /\ scrapedData.links[j].href = as[k].href
                          /\ scrapedData.links[j].text = as[k].href

\* the path up to and with its last "/"
RECURSIVE Dirname(_)
Dirname(path) ==
    IF path = <<>> \/ path[Len(path)] = "/"
    THEN path
    ELSE Dirname(SubSeq(path, 1, Len(path) - 1))

\* RFC 3986 resolution of "/path" and "./path" against a base URL
StandardResolve(href, baseUrl) ==
    LET origin == Protocol(baseUrl) \o <<"/", "/">> \o Host(baseUrl)
    IN  IF StartsWith(href, <<"/">>)
        THEN origin \o href
        ELSE IF StartsWith(href, <<".", "/">>)
        THEN origin \o Dirname(Pathname(baseUrl)) \o SubSeq(href, 3, Len(href))
        ELSE href

\* C17: every href of the extracted links is an absolute http(s) URL, and is
\* what standard resolution against the base URL makes of the href of an
\* anchor of the page; anchors to anything else are dropped.
C17_HrefsAbsoluteHttp ==
    pc \in {"X_extracted", "X_analyzed"} =>
        \A k \in 1..Len(scrapedData.links) :
            /\ IsHttpUrl(scrapedData.links[k].href)
            /\ \E j \in 1..Len(html.elements) :
                  /\ html.elements[j].kind = "a"
                  /\ StandardResolve(html.elements[j].href, html.baseUrl) =
                        scrapedData.links[k].href


\* every heading's level is in 1..6 and is the numeral of its tag
LevelsMatchTags(headings) ==
    \A k \in 1..Len(headings) :
        /\ headings[k].level \in 1..6
        /\ headings[k].tag = TagNames[headings[k].level]

\* C18: in a request for an http(s) page, in the Document the scrape client
\* returned, in the response built from it and in every stored row, each
\* heading's level is in 1..6 and is the numeral of its tag.
C18_HeadingLevels ==
    IsHttpUrl(body.url) =>
        /\ LevelsMatchTags(scrapedData.headings)
        /\ LevelsMatchTags(response.headings)
        /\ \A row \in store : LevelsMatchTags(row.headings)


(***************************************************************************)
(* Content analysis (part_003).  Numbers are fractions num/den, NaN, or    *)
(* undefined, the value of a property a parsed reply does not have.        *)
(***************************************************************************)
Num(num, den) == [kind |-> "number", num |-> num, den |-> den]
NaN == [kind |-> "NaN", num |-> 0, den |-> 1]
UndefinedNumber == [kind |-> "undefined", num |-> 0, den |-> 1]
UndefinedString == "undefined"

\* the maximal runs of characters of s that are not in separators:
\* s.split(/[separators]+/).filter(Boolean)
RECURSIVE SplitOn(_, _, _)
SplitOn(s, separators, run) ==
    IF s = <<>>
    THEN IF run = <<>> THEN <<>> ELSE <<run>>
    ELSE IF Head(s) \in separators
    THEN (IF run = <<>> THEN <<>> ELSE <<run>>)
            \o SplitOn(Tail(s), separators, <<>>)
    ELSE SplitOn(Tail(s), separators, Append(run, Head(s)))

\* texts.join(' ')
RECURSIVE Join(_)
Join(texts) ==
    IF texts = <<>> THEN <<>>
    ELSE IF Len(texts) = 1 THEN texts[1]
    ELSE texts[1] \o <<" ">> \o Join(Tail(texts))

TextsOf(items) == [k \in 1..Len(items) |-> items[k].text]

\* part_003:42-45  `${title} ${headingTexts} ${linkTexts}`
AllText(data) ==
    (IF Truthy(data.title) THEN data.title.text ELSE <<>>)
        \o <<" ">> \o Join(TextsOf(data.headings))
        \o <<" ">> \o Join(TextsOf(data.links))

SentenceEnds == {".", "!", "?"}
IsLongWord(word) == Len(word) > 6

\* part_003:293-311  calculateReadabilityScore
calculateReadabilityScore(text) ==
    LET words == SplitOn(text, Whitespace, <<>>)
        sentences == SplitOn(text, SentenceEnds, <<>>)
        W == Len(words)
        S == Len(sentences)
        L == Len(SelectSeq(words, IsLongWord))
        \* 60 + (W / S) * 2 + ((L / W) * 100) / 2, over the denominator S * W
        num == 60 * S * W + 2 * W * W + 50 * L * S
        den == S * W
    IN  IF S = 0 THEN Num(50, 1)
        ELSE IF W = 0 THEN NaN      \* 0 / 0; Math.max and Math.min keep NaN
        ELSE IF num < 0 THEN Num(0, 1)
        ELSE IF num > 100 * den THEN Num(100, 1)
        ELSE Num(num, den)

\* score < n in JavaScript: false when either side is NaN
LessThan(score, n) == score.kind = "number" /\ score.num < n * score.den

\* part_003:316-320  getReadabilityLevel
getReadabilityLevel(score) ==
    IF LessThan(score, 40) THEN "Easy"
    ELSE IF LessThan(score, 70) THEN "Medium"
    ELSE "Hard"

IsH2(h) == h.level = 2
FirstThree(seq) == SubSeq(seq, 1, IF Len(seq) < 3 THEN Len(seq) ELSE 3)

\* part_003:266-288  generateSummary: what the sentence is put together from
generateSummary(title, headings) ==
    [about |-> title,
     topics |-> TextsOf(SelectSeq(headings, IsH1)),
     subtopics |-> FirstThree(TextsOf(SelectSeq(headings, IsH2)))]

RECURSIVE TotalLength(_)
TotalLength(texts) ==
    IF texts = <<>> THEN 0 ELSE Len(Head(texts)) + TotalLength(Tail(texts))

\* part_003:481-532  generateSuggestions
generateSuggestions(data) ==
    LET h1Count == Len(SelectSeq(data.headings, IsH1))
        found ==
            (IF h1Count = 0 THEN <<"Add an H1 heading">>
             ELSE IF h1Count > 1 THEN <<"Consider using only one H1 heading">>
             ELSE <<>>)
            \o (IF Len(data.links) > 0 THEN <<"Review all links">> ELSE <<>>)
            \o (IF TotalLength(TextsOf(data.headings)) < 300
                THEN <<"Consider adding more content">> ELSE <<>>)
            \o (IF data.screenshot = NULL
                THEN <<"Add visual elements or images">> ELSE <<>>)
    IN  IF found = <<>>
        THEN <<"Content structure looks good", "Optimize images",
               "Add internal links">>
        ELSE found

\* the Analysis: the strategy that made it, and its fields
Analysis(strategy, summary, score, level, suggestions, hasScreenshot) ==
    [strategy |-> strategy, summary |-> summary, contentSummary |-> summary,
     readabilityScore |-> score, readabilityLevel |-> level,
     suggestions |-> suggestions, hasScreenshot |-> hasScreenshot]

\* part_003:225-261  analyzeWithHeuristics
analyzeWithHeuristics(data) ==
    LET score == calculateReadabilityScore(AllText(data))
    IN  Analysis("heuristic",
                 [defined |-> TRUE,
                  value |-> generateSummary(
                      IF Truthy(data.title) THEN data.title.text ELSE <<>>,
                      data.headings)],
                 score, getReadabilityLevel(score),
                 Returned(generateSuggestions(data)),
                 data.screenshot # NULL)

NoSummary == generateSummary(<<>>, <<>>)

\* JSON.parse(response): the expected structure, or an object without its
\* properties
StructuredReply ==
    [contentSummary |-> [defined |-> TRUE,
                         value |-> generateSummary(TextA, <<>>)],
     readabilityScore |-> Num(35, 1), readabilityLevel |-> "Easy",
     suggestions |-> Returned(<<"Add a call to action">>)]
\* the expected structure with "suggestions": []
NoSuggestionsReply == [StructuredReply EXCEPT !.suggestions = Returned(<<>>)]
EmptyObjectReply ==
    [contentSummary |-> [defined |-> FALSE, value |-> NoSummary],
     readabilityScore |-> UndefinedNumber,
     readabilityLevel |-> UndefinedString,
     suggestions |-> Undefined]

\* part_003:156-167  the Analysis made of the parsed reply
AnalysisOfReply(data, ai) ==
    Analysis("openai", ai.contentSummary, ai.readabilityScore,
             ai.readabilityLevel, ai.suggestions, data.screenshot # NULL)

\* what openai.chat.completions.create and the reading of its reply come to:
\* the call rejects; no content; content that is no JSON; the JSON null;
\* a JSON object, of the expected structure or not
Completion(kind, reply) == [kind |-> kind, reply |-> reply]
Completions ==
    {Completion(k, EmptyObjectReply) :
        k \in {"throws", "noContent", "notJson", "jsonNull", "otherJson"}}
    \cup {Completion("structured", StructuredReply),
          Completion("structured", NoSuggestionsReply)}

\* the completions on which analyzeWithOpenAI throws (part_003:122, 141, 145,
\* 153)
CompletionThrows(c) == c.kind \in {"throws", "noContent", "notJson", "jsonNull"}

WordLong == Chars(7)
TextSentence == <<"a", " ", "b", ".">>

ContentTitles == {NullTitle, Title(TextA), Title(WordLong), Title(<<" ">>)}
ContentHeadings == {Heading(1, TextA), Heading(2, WordLong)}
ContentLinks ==
    {<<>>, <<[href |-> HrefA, text |-> TextA]>>,
     <<[href |-> HrefA, text |-> TextSentence]>>}

InitContent ==
    /\ client = "puppeteer"
    /\ \E k \in BOOLEAN : env = [apiKey |-> FALSE, dev |-> FALSE, openaiKey |-> k]
    /\ body = [json |-> TRUE, url |-> UrlHttp, save |-> FALSE]
    /\ browserInstance = FALSE
    /\ pc = "C_start"
    /\ \E t \in ContentTitles, hs \in SeqsUpTo(ContentHeadings, MaxContentHeadings),
          ls \in ContentLinks, shot \in {NULL, Screenshot} :
          scrapedData = Doc(UrlHttp, t, hs, ls, shot, "")
    /\ linkUrls = <<>>
    /\ stageLog = <<>>
    /\ InitCall

contentVars ==
    <<client, env, body, browserInstance, html, textVars, endpointVars,
      browserVars, historyVars, probeVars, routeVars,
      scrapedData, caught, page, brokenLinksResult, stageLog, faults>>

\* part_003:47-54  analyzeContent: without a key the heuristics, with a key
\* the model is called
ContentStart ==
    /\ pc = "C_start"
    /\ IF env.openaiKey
       THEN pc' = "C_calling" /\ UNCHANGED analysis
       ELSE pc' = "C_done" /\ analysis' = analyzeWithHeuristics(scrapedData)
    /\ UNCHANGED completion
    /\ UNCHANGED contentVars

\* part_003:121-172 and 55-59  the call settles: the Analysis of the reply,
\* or analyzeWithOpenAI throws and the catch block returns the heuristics
ContentModelSettles(c) ==
    /\ pc = "C_calling"
    /\ completion' = c
    /\ analysis' = IF CompletionThrows(c)
                   THEN analyzeWithHeuristics(scrapedData)
                   ELSE AnalysisOfReply(scrapedData, c.reply)
    /\ pc' = "C_done"
    /\ UNCHANGED contentVars

NextContent ==
    \/ ContentStart
    \/ \E c \in Completions : ContentModelSettles(c)

SpecContent == InitContent /\ [][NextContent]_vars


(***************************************************************************)
(* Properties of content analysis.                                         *)
(***************************************************************************)
\* every field of the Analysis has a value
Populated(a) ==
    /\ a.summary.defined
    /\ a.contentSummary.defined
    /\ a.readabilityScore.kind # "undefined"
    /\ a.readabilityLevel \in {"Easy", "Medium", "Hard"}
    /\ a.suggestions.defined

\* C19: when the model call throws, returns no content, or returns a reply
\* that is not the expected structured JSON, analyzeContent returns the
\* heuristic Analysis of the same Document, every field populated.
C19_ModelFailureFailsOver ==
    (pc = "C_done" /\ completion.kind \notin {"none", "structured"}) =>
        /\ analysis = analyzeWithHeuristics(scrapedData)
        /\ Populated(analysis)

\* C20: the heuristic readabilityScore is a number within [0, 100], and the
\* level is Easy below 40, Medium below 70 and Hard otherwise.
C20_ReadabilityInRange ==
    (pc = "C_done" /\ analysis.strategy = "heuristic") =>
        LET score == analysis.readabilityScore
        IN  /\ score.kind = "number"
            /\ score.den > 0
            /\ 0 <= score.num /\ score.num <= 100 * score.den
            /\ analysis.readabilityLevel =
                  (IF score.num < 40 * score.den THEN "Easy"
                   ELSE IF score.num < 70 * score.den THEN "Medium"
                   ELSE "Hard")

\* C23: the suggestion list of the Analysis analyzeContent returns is never
\* empty, whichever strategy made it (here for every reply of the expected
\* structure and for the heuristics).
C23_SuggestionsNeverEmpty ==
    (pc = "C_done" /\ completion.kind # "otherJson") =>
        /\ analysis.suggestions.defined
        /\ analysis.suggestions.items # <<>>

(***************************************************************************)
(* The text measures of the heuristics on their own (part_003:325-476).    *)
(***************************************************************************)
UpperCase ==
    <<"A", "B", "C", "D", "E", "F", "G", "H", "I", "J", "K", "L", "M",
      "N", "O", "P", "Q", "R", "S", "T", "U", "V", "W", "X", "Y", "Z">>
LowerCase ==
    <<"a", "b", "c", "d", "e", "f", "g", "h", "i", "j", "k", "l", "m",
      "n", "o", "p", "q", "r", "s", "t", "u", "v", "w", "x", "y", "z">>
DigitChars == <<"0", "1", "2", "3", "4", "5", "6", "7", "8", "9">>
Range(seq) == {seq[k] : k \in DOMAIN seq}

\* text.toLowerCase()
toLowerCase(s) ==
    [k \in 1..Len(s) |->
        IF s[k] \in Range(UpperCase)
        THEN LowerCase[CHOOSE n \in DOMAIN UpperCase : UpperCase[n] = s[k]]
        ELSE s[k]]

\* \w and \s
WordChars == Range(UpperCase) \cup Range(LowerCase) \cup Range(DigitChars) \cup {"_"}
IsWordOrSpace(c) == c \in WordChars \cup Whitespace

\* part_003:329-368
stopWords ==
    {<<"a">>, <<"a", "n">>, <<"t", "h", "e">>, <<"a", "n", "d">>,
     <<"o", "r">>, <<"b", "u", "t">>, <<"i", "s">>, <<"a", "r", "e">>,
     <<"w", "a", "s">>, <<"w", "e", "r", "e">>, <<"t", "o">>, <<"o", "f">>,
     <<"i", "n">>, <<"o", "n">>, <<"a", "t">>, <<"b", "y">>,
     <<"f", "o", "r">>, <<"w", "i", "t", "h">>, <<"a", "b", "o", "u", "t">>,
     <<"f", "r", "o", "m">>, <<"t", "h", "i", "s">>, <<"t", "h", "a", "t">>,
     <<"t", "h", "e", "s", "e">>, <<"t", "h", "o", "s", "e">>, <<"i", "t">>,
     <<"i", "t", "s">>, <<"t", "h", "e", "y">>, <<"t", "h", "e", "m">>,
     <<"h", "a", "v", "e">>, <<"h", "a", "s">>, <<"h", "a", "d">>,
     <<"w", "i", "l", "l">>, <<"w", "o", "u", "l", "d">>,
     <<"c", "o", "u", "l", "d">>, <<"s", "h", "o", "u", "l", "d">>,
     <<"c", "a", "n">>, <<"m", "a", "y">>, <<"m", "i", "g", "h", "t">>}

\* part_003:407-427
positiveWords ==
    {<<"g", "o", "o", "d">>, <<"g", "r", "e", "a", "t">>,
     <<"b", "e", "s", "t">>, <<"e", "x", "c", "e", "l", "l", "e", "n", "t">>,
     <<"a", "m", "a", "z", "i", "n", "g">>,
     <<"w", "o", "n", "d", "e", "r", "f", "u", "l">>,
     <<"f", "a", "n", "t", "a", "s", "t", "i", "c">>, <<"l", "o", "v", "e">>,
     <<"l", "i", "k", "e">>, <<"e", "n", "j", "o", "y">>,
     <<"h", "a", "p", "p", "y">>, <<"p", "l", "e", "a", "s", "e", "d">>,
     <<"s", "a", "t", "i", "s", "f", "i", "e", "d">>,
     <<"p", "e", "r", "f", "e", "c", "t">>,
     <<"o", "u", "t", "s", "t", "a", "n", "d", "i", "n", "g">>,
     <<"b", "r", "i", "l", "l", "i", "a", "n", "t">>,
     <<"a", "w", "e", "s", "o", "m", "e">>,
     <<"i", "n", "c", "r", "e", "d", "i", "b", "l", "e">>,
     <<"s", "u", "p", "e", "r", "b">>}

\* part_003:429-449
negativeWords ==
    {<<"b", "a", "d">>, <<"t", "e", "r", "r", "i", "b", "l", "e">>,
     <<"a", "w", "f", "u", "l">>, <<"h", "o", "r", "r", "i", "b", "l", "e">>,
     <<"w", "o", "r", "s", "t">>, <<"h", "a", "t", "e">>,
     <<"d", "i", "s", "l", "i", "k", "e">>, <<"a", "n", "g", "r", "y">>,
     <<"f", "r", "u", "s", "t", "r", "a", "t", "e", "d">>,
     <<"d", "i", "s", "a", "p", "p", "o", "i", "n", "t", "e", "d">>,
     <<"s", "a", "d">>, <<"p", "o", "o", "r">>,
     <<"f", "a", "i", "l", "e", "d">>, <<"b", "r", "o", "k", "e", "n">>,
     <<"w", "r", "o", "n", "g">>, <<"e", "r", "r", "o", "r">>,
     <<"p", "r", "o", "b", "l", "e", "m">>, <<"i", "s", "s", "u", "e">>,
     <<"d", "i", "f", "f", "i", "c", "u", "l", "t">>}

IsKeyword(word) == Len(word) > 2 /\ word \notin stopWords

\* part_003:371-375  the tokens counted
KeywordTokens(t) ==
    SelectSeq(SplitOn(SelectSeq(toLowerCase(t), IsWordOrSpace), Whitespace, <<>>),
              IsKeyword)

\* wordCounts is an object literal: a word that names a property it inherits
\* reads that property where a count is expected
WordConstructor == <<"c", "o", "n", "s", "t", "r", "u", "c", "t", "o", "r">>
WordProto == <<"_", "_", "p", "r", "o", "t", "o", "_", "_">>
\* the function + 1 is a string, kept as an own property
CountIsString(word) == word = WordConstructor
\* an assignment of a string to __proto__ is ignored: never an own property
NeverOwn(word) == word = WordProto

\* a property name that is an array index: enumerated first, in ascending
\* order, before the other names in the order of their creation
IsIndexKey(word) ==
    /\ Len(word) >= 1 /\ Len(word) <= 9
    /\ \A k \in DOMAIN word : word[k] \in Range(DigitChars)
    /\ (Len(word) = 1 \/ word[1] # "0")

DigitValue(c) == (CHOOSE n \in DOMAIN DigitChars : DigitChars[n] = c) - 1

RECURSIVE IndexValue(_)
IndexValue(word) ==
    IF word = <<>> THEN 0
    ELSE 10 * IndexValue(SubSeq(word, 1, Len(word) - 1))
            + DigitValue(word[Len(word)])

Occurrences(words, word) == Cardinality({k \in DOMAIN words : words[k] = word})
FirstAt(words, word) == CHOOSE k \in DOMAIN words :
                            words[k] = word /\ \A j \in 1..(k - 1) : words[j] # word

\* a finite set as the sequence ordered by rank (an injection into Nat)
RECURSIVE SortedBy(_, _)
SortedBy(S, rank) ==
    IF S = {} THEN <<>>
    ELSE LET first == CHOOSE x \in S : \A y \in S : rank[x] <= rank[y]
         IN  <<first>> \o SortedBy(S \ {first}, rank)

\* Object.keys(wordCounts)
OwnKeys(words) ==
    LET own == {w \in Range(words) : ~NeverOwn(w)}
        indexKeys == {w \in own : IsIndexKey(w)}
        names == own \ indexKeys
    IN  SortedBy(indexKeys, [w \in indexKeys |-> IndexValue(w)])
            \o SortedBy(names, [w \in names |-> FirstAt(words, w)])

\* part_003:387  +((count / totalWords) * 100).toFixed(2), in hundredths
Density(word, words) ==
    IF CountIsString(word) THEN NaN
    ELSE Num((20000 * Occurrences(words, word) + Len(words))
                \div (2 * Len(words)), 100)

\* part_003:383-388  Object.entries(keywordDensity)
DensityEntries(t) ==
    LET words == KeywordTokens(t)
        keys == OwnKeys(words)
    IN  [k \in 1..Len(keys) |->
            [word |-> keys[k], density |-> Density(keys[k], words)]]

\* the orders of the positions 1..n
Orders(n) == {o \in [1..n -> 1..n] : \A i, j \in 1..n : o[i] = o[j] => i = j}

\* part_003:391-392  .sort((a, b) => b[1] - a[1]): stable, by descending
\* density; a comparison with NaN makes the comparator inconsistent and the
\* order implementation-defined
SortOutcomes(entries) ==
    LET n == Len(entries)
        hasNaN == \E k \in 1..n : entries[k].density.kind = "NaN"
        stable == SortedBy(1..n,
                           [k \in 1..n |->
                               (10000 - entries[k].density.num) * (n + 1) + k])
    IN  IF hasNaN
        THEN {[k \in 1..n |-> entries[o[k]]] : o \in Orders(n)}
        ELSE {[k \in 1..n |-> entries[stable[k]]]}

FirstFive(seq) == SubSeq(seq, 1, IF Len(seq) < 5 THEN Len(seq) ELSE 5)
WordsOf(entries) == [k \in 1..Len(entries) |-> entries[k].word]

\* part_003:325-398  calculateKeywordDensity: what it can return
KeywordResults(t) ==
    {[keywordDensity |-> DensityEntries(t),
      topKeywords |-> FirstFive(WordsOf(sorted)),
      called |-> TRUE] : sorted \in SortOutcomes(DensityEntries(t))}

IsPositive(word) == word \in positiveWords
IsNegative(word) == word \in negativeWords

calculateSentimentUnguarded(t) ==
    LET words == SplitOn(toLowerCase(t), Whitespace, <<>>)
        positiveCount == Len(SelectSeq(words, IsPositive))
        negativeCount == Len(SelectSeq(words, IsNegative))
    IN  Num(positiveCount - negativeCount, positiveCount + negativeCount)

\* part_003:403-465  calculateSentiment
calculateSentiment(t) ==
    LET words == SplitOn(toLowerCase(t), Whitespace, <<>>)
        positiveCount == Len(SelectSeq(words, IsPositive))
        negativeCount == Len(SelectSeq(words, IsNegative))
        totalSentimentWords == positiveCount + negativeCount
    IN  IF totalSentimentWords = 0 THEN Num(0, 1)
        ELSE Num(positiveCount - negativeCount, totalSentimentWords)

\* score > tenths / 10, for a score of positive denominator
Above(score, tenths) == 10 * score.num > tenths * score.den

\* part_003:470-476  getSentimentAnalysis
getSentimentAnalysis(score) ==
    IF Above(score, 3) THEN "Very Positive"
    ELSE IF Above(score, 1) THEN "Positive"
    ELSE IF Above(score, -1) THEN "Neutral"
    ELSE IF Above(score, -3) THEN "Negative"
    ELSE "Very Negative"

TokenCat == <<"c", "a", "t">>
TokenDog == <<"d", "o", "g">>
TokenNumber == <<"1", "2", "3">>
TokenThe == <<"t", "h", "e">>
TokenIt == <<"i", "t">>
TokenCatComma == <<"C", "a", "t", ",">>
TokenGood == <<"g", "o", "o", "d">>
TokenGoodStop == <<"G", "o", "o", "d", ".">>
TokenBad == <<"b", "a", "d">>

PlainTokens == {TokenCat, TokenDog, TokenThe, TokenIt, TokenCatComma,
                TokenGood, TokenGoodStop, TokenBad}
TokenPool == PlainTokens \cup {TokenNumber, WordConstructor, WordProto}

\* six different keywords
SixWords ==
    <<<<"o", "n", "e">>, <<"t", "w", "o">>, <<"s", "i", "x">>,
      <<"t", "e", "n">>, TokenCat, TokenDog>>

TextInputs ==
    {Join(ws) : ws \in SeqsUpTo(TokenPool, MaxWords)}
    \cup {Join(SixWords \o ws) : ws \in SeqsUpTo(PlainTokens, 1)}

textIdleVars ==
    <<client, env, body, browserInstance, html, completion, analysis,
      endpointVars, browserVars, historyVars,
      probeVars, routeVars, scrapedData, caught, page, brokenLinksResult,
      stageLog, faults>>

InitText ==
    /\ client = "puppeteer"
    /\ env = [apiKey |-> FALSE, dev |-> FALSE]
    /\ body = [json |-> TRUE, url |-> UrlHttp, save |-> FALSE]
    /\ browserInstance = FALSE
    /\ pc = "T_start"
    /\ scrapedData = Doc(UrlHttp, NullTitle, <<>>, <<>>, NULL, "")
    /\ linkUrls = <<>>
    /\ stageLog = <<>>
    /\ caught = ""
    /\ page = "none"
    /\ base = 0
    /\ inflight = {}
    /\ settled = Empty
    /\ results = <<>>
    /\ brokenLinksResult = Undefined
    /\ enhancedLinks = <<>>
    /\ issues = <<>>
    /\ savedData = NoSaved
    /\ store = {}
    /\ response = NoResponse
    /\ probeLog = Empty
    /\ faults = {}
    /\ html = NoHtml
    /\ completion = NotCalled
    /\ analysis = NoAnalysis
    /\ allText \in TextInputs
    /\ keywords = NoKeywords
    /\ sentiment = NoSentiment
    /\ IdleEndpoints
    /\ IdleBrowser
    /\ IdleHistory
    /\ issued = 0

\* part_003:238  calculateKeywordDensity(allText)
TextKeywords ==
    /\ pc = "T_start"
    /\ keywords' \in KeywordResults(allText)
    /\ pc' = "T_keywords"
    /\ UNCHANGED <<allText, sentiment, textIdleVars>>

\* part_003:241-242  calculateSentiment(allText) and its label
TextSentiment ==
    /\ pc = "T_keywords"
    /\ sentiment' = [called |-> TRUE,
                     sentimentScore |-> calculateSentiment(allText),
                     sentimentAnalysis |->
                         getSentimentAnalysis(calculateSentiment(allText))]
    /\ pc' = "T_done"
    /\ UNCHANGED <<allText, keywords, textIdleVars>>

NextText == TextKeywords \/ TextSentiment

SpecText == InitText /\ [][NextText]_vars


(***************************************************************************)
(* Properties of the text measures.                                        *)
(***************************************************************************)
\* the remaining tokens of the text: lowercased, punctuation stripped, split
\* on whitespace, without tokens of length 2 or less and stop words
Remaining == KeywordTokens(allText)

\* 100 * count / total rounded to two decimals, in hundredths
RoundedShare(count, total) == (20000 * count + total) \div (2 * total)

ClaimedDensity(word) ==
    Num(RoundedShare(Occurrences(Remaining, word), Len(Remaining)), 100)

\* the different words by descending density, equal densities by first
\* occurrence, at most five of them
ClaimedTop ==
    LET S == Range(Remaining)
        n == Len(Remaining)
    IN  FirstFive(SortedBy(S,
            [w \in S |-> (n - Occurrences(Remaining, w)) * (n + 1)
                             + FirstAt(Remaining, w)]))

\* C21: calculateKeywordDensity gives every remaining word its share of the
\* remaining tokens in percent, rounded to two decimals, and as topKeywords
\* the at most five words of highest density, equal densities in the order of
\* first occurrence.
C21_KeywordDensity ==
    keywords.called =>
        /\ Range(keywords.keywordDensity) =
              {[word |-> w, density |-> ClaimedDensity(w)] : w \in Range(Remaining)}
        /\ keywords.topKeywords = ClaimedTop

\* the words of the text, and how many are in a list
SentimentWords == SplitOn(toLowerCase(allText), Whitespace, <<>>)
CountIn(list) ==
    Cardinality({k \in DOMAIN SentimentWords : SentimentWords[k] \in list})

Content(title) ==
    [url |-> UrlHttp, title |-> title, headings |-> <<>>, links |-> <<>>,
     screenshot |-> NULL, issues |-> <<>>]
ContentOf(row) ==
    [url |-> row.url, title |-> row.title, headings |-> row.headings,
     links |-> row.links, screenshot |-> row.screenshot, issues |-> row.issues]
RowOf(id, c) ==
    Row(id, c.url, c.title, c.headings, c.links, c.screenshot, c.issues)

\* what pipeline runs come to, and a body posted by hand
PipelineResults == {Content(NullTitle), Content(Title(TextA))}
PostedByHand == Content(Title(TextHere))

\* ids a delete request can name
RequestIds == 1..MaxSaves

\* the ids property of a delete body: missing or no array, or an array
NoArray == [isArray |-> FALSE, items |-> {}]
ArrayOf(items) == [isArray |-> TRUE, items |-> items]

ScrapeRequests ==
    {[endpoint |-> "scrape", save |-> sv, data |-> c] :
        sv \in BOOLEAN, c \in PipelineResults}
SaveRequests ==
    {[endpoint |-> "save", hasUrl |-> TRUE, data |-> c] :
        c \in PipelineResults \cup {PostedByHand}}
    \cup {[endpoint |-> "save", hasUrl |-> FALSE, data |-> PostedByHand]}
DeleteRequests ==
    {[endpoint |-> "delete", id |-> i, ids |-> NoArray] : i \in RequestIds \cup {NoId}}
    \cup {[endpoint |-> "delete", id |-> NoId, ids |-> ArrayOf(S)] :
            S \in SUBSET RequestIds}
StoreRequests == ScrapeRequests \cup SaveRequests \cup DeleteRequests

Answer(status, id, createdAt) ==
    [status |-> status, id |-> id, createdAt |-> createdAt]

storeIdleVars ==
    <<client, env, body, browserInstance, html, completion, analysis,
      textVars, browserVars, historyVars, probeVars, scrapedData, caught, page, brokenLinksResult,
      enhancedLinks, issues, savedData, response, stageLog, faults>>

InitStore ==
    /\ client = "puppeteer"
    /\ env = [apiKey |-> FALSE, dev |-> FALSE]
    /\ body = [json |-> TRUE, url |-> UrlHttp, save |-> FALSE]
    /\ browserInstance = FALSE
    /\ pc = "S_idle"
    /\ scrapedData = Doc(UrlHttp, NullTitle, <<>>, <<>>, NULL, "")
    /\ linkUrls = <<>>
    /\ stageLog = <<>>
    /\ InitCall

\* a request arrives and its handler runs up to its persistence call, or
\* answers without one
StoreArrives(req) ==
    /\ pc \in {"S_idle", "S_answered"}
    /\ served < MaxRequests
    /\ served' = served + 1
    /\ request' = req
    /\ dbLog' = NoCalls
    /\ produced' = IF req.endpoint = "scrape"
                   THEN produced \cup {req.data} ELSE produced
    /\ IF req.endpoint = "scrape"
       THEN \* route.ts:115-116, 127-136
            IF req.save
            THEN pc' = "S_saving" /\ answer' = NoAnswer
            ELSE pc' = "S_answered" /\ answer' = Answer(200, NoId, "now")
       ELSE IF req.endpoint = "save"
       THEN \* part_009:10-18
            IF req.hasUrl
            THEN pc' = "S_saving" /\ answer' = NoAnswer
            ELSE pc' = "S_answered" /\ answer' = Answer(400, NoId, NULL)
       ELSE \* delete/route.ts:12-27
            IF req.id = NoId /\ ~req.ids.isArray
            THEN pc' = "S_answered" /\ answer' = Answer(400, NoId, NULL)
            ELSE IF req.id # NoId
            THEN pc' = "S_deleting" /\ answer' = NoAnswer
            ELSE IF req.ids.items # {}
            THEN pc' = "S_deletingMany" /\ answer' = NoAnswer
            ELSE pc' = "S_answered" /\ answer' = Answer(500, NoId, NULL)
    /\ UNCHANGED <<store, issued, linkUrls, base, inflight, settled, results,
                   probeLog, storeIdleVars>>

\* supabase/client.ts:38-67  saveScrapedData settles, and the handler answers
\* (route.ts:127-136, part_009:27-38)
StoreSaveSettles(inserted) ==
    /\ pc = "S_saving"
    /\ issued' = issued + 1
    /\ dbLog' = [calls |-> dbLog.calls + 1, failed |-> ~inserted]
    /\ LET row == RowOf(FreshId(issued), request.data)
       IN  /\ store' = IF inserted THEN store \cup {row} ELSE store
           /\ answer' =
                IF inserted THEN Answer(200, row.id, row.createdAt)
                ELSE IF request.endpoint = "scrape" THEN Answer(200, NoId, "now")
                ELSE Answer(500, NoId, NULL)
    /\ pc' = "S_answered"
    /\ UNCHANGED <<request, produced, served, linkUrls, base, inflight,
                   settled, results, probeLog, storeIdleVars>>

\* supabase/client.ts:131-148  deleteScrapedData settles (delete/route.ts:
\* 29-36)
StoreDeleteSettles(deleted) ==
    /\ pc = "S_deleting"
    /\ dbLog' = [calls |-> dbLog.calls + 1, failed |-> ~deleted]
    /\ store' = IF deleted THEN {row \in store : row.id # request.id} ELSE store
    /\ answer' = Answer(IF deleted THEN 200 ELSE 500, NoId, NULL)
    /\ pc' = "S_answered"
    /\ UNCHANGED <<issued, request, produced, served, linkUrls, base,
                   inflight, settled, results, probeLog, storeIdleVars>>

\* supabase/client.ts:153-172  deleteMultipleScrapedData settles
StoreDeleteManySettles(deleted) ==
    /\ pc = "S_deletingMany"
    /\ dbLog' = [calls |-> dbLog.calls + 1, failed |-> ~deleted]
    /\ store' = IF deleted
                THEN {row \in store : row.id \notin request.ids.items}
                ELSE store
    /\ answer' = Answer(IF deleted THEN 200 ELSE 500, NoId, NULL)
    /\ pc' = "S_answered"
    /\ UNCHANGED <<issued, request, produced, served, linkUrls, base,
                   inflight, settled, results, probeLog, storeIdleVars>>

NextStore ==
    \/ \E req \in StoreRequests : StoreArrives(req)
    \/ \E inserted \in BOOLEAN : StoreSaveSettles(inserted)
    \/ \E deleted \in BOOLEAN : StoreDeleteSettles(deleted)
    \/ \E deleted \in BOOLEAN : StoreDeleteManySettles(deleted)

SpecStore == InitStore /\ [][NextStore]_vars


(***************************************************************************)
(* Properties of the store.                                                *)
(***************************************************************************)
Ids(rows) == {row.id : row \in rows}

\* C25: a record holds the result of a successful pipeline run, and once it
\* exists its fields never change: it stays as it is or its id leaves the
\* store.
C25_RecordsImmutable ==
    /\ [](\A row \in store : ContentOf(row) \in produced)
    /\ [][\A row \in store : row \in store' \/ row.id \notin Ids(store')]_vars

\* C26: a call of saveScrapedData adds at most one record, under an id no
\* stored record has, and a save that is answered with success has added one
\* with the content posted, whatever the store held: nothing is deduplicated.
C26_SaveInsertsFreshRecord ==
    [][pc = "S_saving" =>
        LET new == store' \ store
        IN  /\ store \subseteq store'
            /\ Cardinality(new) <= 1
            /\ \A row \in new : row.id \notin Ids(store)
            /\ Cardinality(Ids(store')) = Cardinality(store')
            /\ (answer'.status = 200 /\ answer'.id # NoId) =>
                  \E row \in new : /\ ContentOf(row) = request.data
                                   /\ row.id = answer'.id]_vars

\* the same content saved twice: two records, different ids
C26_Witness ==
    \E r1, r2 \in store :
        /\ r1.id # r2.id
        /\ ContentOf(r1) = ContentOf(r2)
        /\ request.endpoint = "save"
        /\ pc = "S_answered"

\* C28: a persistence operation is invoked at most once per request; when it
\* fails the handler answers with a failure response; the delete handler
\* answers success only if a delete was executed and reported no error.
C28_PersistenceFailuresReported ==
    /\ dbLog.calls <= 1
    /\ pc = "S_answered" =>
          /\ dbLog.failed => answer.status >= 400
          /\ (request.endpoint = "delete" /\ answer.status = 200) =>
                dbLog.calls = 1 /\ ~dbLog.failed


(***************************************************************************)
(* The Puppeteer client under concurrent calls: getBrowser, the pages of   *)
(* scrapeWebsite and checkBrokenLinks, closeBrowser (part_004:128-323,     *)
(* 443-451).                                                               *)
(***************************************************************************)
Runs == 1..MaxRuns

Run(at, kind, browser, pg) ==
    [at |-> at, kind |-> kind, browser |-> browser, page |-> pg]
IdleRun == Run("idle", "none", NoBrowser, "none")

Finished(r) == runs[r].at \in {"returned", "threw"}
OpenBrowsers == {b \in DOMAIN browsers : browsers[b] = "open"}

\* closing a browser closes the pages that are open on it
PagesAfterClose(b) ==
    [r \in Runs |->
        IF runs[r].browser = b /\ runs[r].page = "open"
        THEN [runs[r] EXCEPT !.page = "closed"]
        ELSE runs[r]]

browserIdleVars ==
    <<client, env, body, browserInstance, html, completion, analysis,
      textVars, endpointVars, historyVars, probeVars, routeVars, scrapedData,
      caught, page, brokenLinksResult, stageLog, faults, pc>>

InitBrowser ==
    /\ pc = "B_calls"
    /\ handle = NoBrowser
    /\ browsers = Empty
    /\ runs = [r \in Runs |-> IdleRun]
    /\ closer = NoBrowser
    /\ calls = 0
    /\ IdleText
    /\ IdleEndpoints
    /\ IdleHistory
    /\ IdleRequest

\* part_004:183-189, 274-275, 134-135  a call begins and calls getBrowser:
\* with a cached browser it gets that one, without one it launches
BrowserCall(r, kind) ==
    /\ runs[r].at = "idle" \/ Finished(r)
    /\ calls < MaxCalls
    /\ calls' = calls + 1
    /\ runs' = [runs EXCEPT ![r] =
                   IF handle = NoBrowser
                   THEN Run("launching", kind, NoBrowser, "none")
                   ELSE Run("opening", kind, handle, "none")]
    /\ UNCHANGED <<handle, browsers, closer, browserIdleVars>>

\* part_004:139-170  puppeteer.launch settles: the new browser is assigned to
\* browserInstance and returned; a rejected launch is caught by the call,
\* which has no page
BrowserLaunchSettles(r, launched) ==
    /\ runs[r].at = "launching"
    /\ IF launched
       THEN LET b == 1 + Cardinality(DOMAIN browsers)
            IN  /\ browsers' = Put(browsers, b, "open")
                /\ handle' = b
                /\ runs' = [runs EXCEPT ![r].at = "opening", ![r].browser = b]
       ELSE /\ runs' = [runs EXCEPT ![r].at = "returned"]
            /\ UNCHANGED <<browsers, handle>>
    /\ UNCHANGED <<closer, calls, browserIdleVars>>

\* part_004:190, 275  browser.newPage() settles; it rejects on a closed
\* browser
BrowserNewPageSettles(r, opened) ==
    /\ runs[r].at = "opening"
    /\ opened => browsers[runs[r].browser] = "open"
    /\ runs' = [runs EXCEPT ![r] =
                   IF opened
                   THEN [runs[r] EXCEPT !.at = "working", !.page = "open"]
                   ELSE [runs[r] EXCEPT !.at = "returned"]]
    /\ UNCHANGED <<handle, browsers, closer, calls, browserIdleVars>>

\* part_004:193-234, 278-308  the work on the page settles: goto, evaluate
\* or screenshot of scrapeWebsite may reject; the probes of checkBrokenLinks
\* catch their own errors
BrowserWorkSettles(r, worked) ==
    /\ runs[r].at = "working"
    /\ worked \/ runs[r].kind = "scrape"
    /\ worked => (runs[r].page = "open" \/ runs[r].kind = "check")
    /\ runs' = [runs EXCEPT ![r].at = IF worked THEN "closing" ELSE "catching"]
    /\ UNCHANGED <<handle, browsers, closer, calls, browserIdleVars>>

\* part_004:237, 311  page.close() on the success path
BrowserPageCloseSettles(r, closed) ==
    /\ runs[r].at = "closing"
    /\ runs' = [runs EXCEPT ![r] =
                   IF closed
                   THEN [runs[r] EXCEPT !.at = "returned", !.page = "closed"]
                   ELSE [runs[r] EXCEPT !.at = "catching"]]
    /\ UNCHANGED <<handle, browsers, closer, calls, browserIdleVars>>

\* part_004:250, 318  page.close() in the catch block, with no try of its
\* own: when it rejects the call rejects
BrowserCatchCloseSettles(r, closed) ==
    /\ runs[r].at = "catching"
    /\ runs' = [runs EXCEPT ![r] =
                   IF closed
                   THEN [runs[r] EXCEPT !.at = "returned", !.page = "closed"]
                   ELSE [runs[r] EXCEPT !.at = "threw"]]
    /\ UNCHANGED <<handle, browsers, closer, calls, browserIdleVars>>

\* part_004:446-448  closeBrowser finds a cached browser and closes it
CloseBrowser ==
    /\ closer = NoBrowser
    /\ handle # NoBrowser
    /\ closer' = handle
    /\ UNCHANGED <<handle, browsers, runs, calls, browserIdleVars>>

\* part_004:448-449  the close settles and browserInstance is set to null;
\* a rejected close leaves it
CloseBrowserSettles(closed) ==
    /\ closer # NoBrowser
    /\ closer' = NoBrowser
    /\ IF closed
       THEN /\ browsers' = [browsers EXCEPT ![closer] = "closed"]
            /\ runs' = PagesAfterClose(closer)
            /\ handle' = NoBrowser
       ELSE UNCHANGED <<browsers, runs, handle>>
    /\ UNCHANGED <<calls, browserIdleVars>>

NextBrowser ==
    \/ \E r \in Runs, kind \in {"scrape", "check"} : BrowserCall(r, kind)
    \/ \E r \in Runs, launched \in BOOLEAN : BrowserLaunchSettles(r, launched)
    \/ \E r \in Runs, opened \in BOOLEAN : BrowserNewPageSettles(r, opened)
    \/ \E r \in Runs, worked \in BOOLEAN : BrowserWorkSettles(r, worked)
    \/ \E r \in Runs, closed \in BOOLEAN : BrowserPageCloseSettles(r, closed)
    \/ \E r \in Runs, closed \in BOOLEAN : BrowserCatchCloseSettles(r, closed)
    \/ CloseBrowser
    \/ \E closed \in BOOLEAN : CloseBrowserSettles(closed)

SpecBrowser == InitBrowser /\ [][NextBrowser]_vars


(***************************************************************************)
(* Properties of the cached browser and of the pages.                      *)
(***************************************************************************)
\* C27: for any interleaving of calls, at most one launched browser is open,
\* and every open browser is the cached handle: none is overwritten and
\* left behind.
C27_OneSharedBrowser ==
    /\ Cardinality(OpenBrowsers) <= 1
    /\ \A b \in OpenBrowsers : handle = b

\* C29: when a call has finished, the page it opened is closed.
C29_PagesClosed ==
    \A r \in Runs : Finished(r) => runs[r].page # "open"


(***************************************************************************)
(* The history list (history-list.tsx:34-111, 153-223) on the history page *)
(* (history/page.tsx:13-51), over the rows of the store.                   *)
(***************************************************************************)
\* s.includes(t)
IsInfix(t, s) ==
    \E i \in 0..(Len(s) - Len(t)) : SubSeq(s, i + 1, i + Len(t)) = t

\* history-list.tsx:42-45  the filter of one item
MatchesSearch(item, term) ==
    \/ IsInfix(toLowerCase(term), toLowerCase(item.url))
    \/ IsInfix(toLowerCase(term),
               IF Truthy(item.title) THEN toLowerCase(item.title.text) ELSE <<>>)

\* history-list.tsx:41-46  filteredItems
filteredItems ==
    IF searchTerm # <<>>
    THEN {item \in scrapedItems : MatchesSearch(item, searchTerm)}
    ELSE scrapedItems

ShownIds == {item.id : item \in filteredItems}

TermHere == <<"H", "e", "r", "e">>
TermNone == <<"z">>
SearchTerms == {<<>>, TermHere, TermNone}
HistoryTitles == {Title(TextA), Title(TextHere)}

\* the stores the page can find: records 1..n
HistoryStores ==
    UNION {{{RowOf(i, Content(t[i])) : i \in 1..n} : t \in [1..n -> HistoryTitles]} :
              n \in 0..MaxItems}

historyIdleVars ==
    <<client, env, body, browserInstance, html, completion, analysis,
      textVars, endpointVars, browserVars, probeVars, scrapedData, caught,
      page, brokenLinksResult, enhancedLinks, issues, savedData, issued,
      response, stageLog, faults, pc>>

\* history/page.tsx:13-29  the page has loaded the rows
InitHistory ==
    /\ pc = "H_list"
    /\ IdleText
    /\ IdleEndpoints
    /\ IdleBrowser
    /\ client = "puppeteer"
    /\ env = [apiKey |-> FALSE, dev |-> FALSE]
    /\ body = [json |-> TRUE, url |-> UrlHttp, save |-> FALSE]
    /\ browserInstance = FALSE
    /\ scrapedData = NoDoc
    /\ linkUrls = <<>>
    /\ stageLog = <<>>
    /\ issued = 0
    /\ caught = ""
    /\ page = "none"
    /\ base = 0
    /\ inflight = {}
    /\ settled = Empty
    /\ results = <<>>
    /\ brokenLinksResult = Undefined
    /\ enhancedLinks = <<>>
    /\ issues = <<>>
    /\ savedData = NoSaved
    /\ response = NoResponse
    /\ probeLog = Empty
    /\ faults = {}
    /\ html = NoHtml
    /\ completion = NotCalled
    /\ analysis = NoAnalysis
    /\ store \in HistoryStores
    /\ scrapedItems = store
    /\ searchTerm = <<>>
    /\ selectedItems = {}
    /\ isDeleting = FALSE
    /\ isSelectMode = FALSE
    /\ deleting = NoDelete

historyRest ==
    <<linkUrls, base, inflight, settled, results, probeLog, historyIdleVars>>

\* history-list.tsx:153-162  the Select / Cancel button
ToggleSelectMode ==
    /\ scrapedItems # {}
    /\ isSelectMode' = ~isSelectMode
    /\ UNCHANGED <<store, scrapedItems, searchTerm, selectedItems, isDeleting,
                   deleting, historyRest>>

\* history-list.tsx:95-103, 233-238  the checkbox of a shown item
toggleSelectItem(id) ==
    /\ isSelectMode
    /\ id \in ShownIds
    /\ selectedItems' = IF id \in selectedItems
                        THEN selectedItems \ {id}
                        ELSE selectedItems \cup {id}
    /\ UNCHANGED <<store, scrapedItems, searchTerm, isSelectMode, isDeleting,
                   deleting, historyRest>>

\* history-list.tsx:105-111, 209-218  Select All / Deselect All
toggleSelectAll ==
    /\ isSelectMode
    /\ filteredItems # {}
    /\ selectedItems' = IF Cardinality(selectedItems) = Cardinality(filteredItems)
                        THEN {}
                        ELSE ShownIds
    /\ UNCHANGED <<store, scrapedItems, searchTerm, isSelectMode, isDeleting,
                   deleting, historyRest>>

\* history-list.tsx:202-208, 313-319  the search box, and Clear search
setSearchTerm(term) ==
    /\ searchTerm' = term
    /\ searchTerm' # searchTerm
    /\ UNCHANGED <<store, scrapedItems, selectedItems, isSelectMode, isDeleting,
                   deleting, historyRest>>

\* history-list.tsx:49-56, 271-298  the delete button of a shown item
handleDeleteSingle(id) ==
    /\ ~isSelectMode
    /\ ~isDeleting
    /\ id \in ShownIds
    /\ isDeleting' = TRUE
    /\ deleting' = [kind |-> "single", ids |-> {id}]
    /\ UNCHANGED <<store, scrapedItems, searchTerm, selectedItems,
                   isSelectMode, historyRest>>

\* history-list.tsx:70-79, 164-192  Delete Selected (n)
handleDeleteMultiple ==
    /\ isSelectMode
    /\ ~isDeleting
    /\ selectedItems # {}
    /\ isDeleting' = TRUE
    /\ deleting' = [kind |-> "multiple", ids |-> selectedItems]
    /\ UNCHANGED <<store, scrapedItems, searchTerm, selectedItems,
                   isSelectMode, historyRest>>

\* history-list.tsx:58-67, 81-92; history/page.tsx:13-25  the delete request
\* is answered; after a success the rows are fetched again
\* (supabase/client.ts:72-95: no rows when the fetch fails)
DeleteAnswered(ok, fetched) ==
    /\ deleting.kind # "none"
    /\ deleting' = NoDelete
    /\ isDeleting' = FALSE
    /\ IF ok
       THEN /\ store' = {row \in store : row.id \notin deleting.ids}
            /\ scrapedItems' = IF fetched THEN store' ELSE {}
            /\ IF deleting.kind = "multiple"
               THEN selectedItems' = {} /\ isSelectMode' = FALSE
               ELSE UNCHANGED <<selectedItems, isSelectMode>>
       ELSE /\ fetched
            /\ UNCHANGED <<store, scrapedItems, selectedItems, isSelectMode>>
    /\ UNCHANGED <<searchTerm, historyRest>>

NextHistory ==
    \/ ToggleSelectMode
    \/ \E id \in 1..MaxItems : toggleSelectItem(id)
    \/ toggleSelectAll
    \/ \E term \in SearchTerms : setSearchTerm(term)
    \/ \E id \in 1..MaxItems : handleDeleteSingle(id)
    \/ handleDeleteMultiple
    \/ \E ok \in BOOLEAN, fetched \in BOOLEAN : DeleteAnswered(ok, fetched)

SpecHistory == InitHistory /\ [][NextHistory]_vars

\* C30: the selected ids are ids of records that are shown, hence of records
\* that exist: 'Delete Selected (n)' counts and sends only listed records.
C30_SelectionWithinShown ==
    /\ selectedItems \subseteq ShownIds
    /\ selectedItems \subseteq Ids(store)

=============================================================================
